---- MODULE Spec2Model ----
(***************************************************************************)
(* JaRoet Outliner: the outline tree engine of the App component.          *)
(*                                                                         *)
(* The repository holds two implementations of the App handlers:           *)
(*   "full"  src/unnamed/part_006 (read-only guards, siblings-follow       *)
(*           outdent, merge with unfold and first-item branch, ...)        *)
(*   "app"   src/App.tsx          (the same component with the handlers    *)
(*           from handleGoToJournal on rewritten)                          *)
(* The variable `variant` says which of the two is running; it never       *)
(* changes.  Everything before handleGoToJournal (auto-prune effect,       *)
(* handleZoom, handleNavigate, the derived views) is the same code in the  *)
(* two files.                                                              *)
(*                                                                         *)
(* A Bullet is a record [id, text, children, isCollapsed, isReadOnly];     *)
(* text is a sequence of characters; createdAt/updatedAt are left out      *)
(* (no property depends on a timestamp).  structuredClone is the identity  *)
(* on values.  A location in the forest (result of findBulletAndParent)    *)
(* is the sequence of 1-based indices leading to the node; <<>> is null.   *)
(***************************************************************************)
EXTENDS Integers, Sequences, FiniteSets, TLC

\* ------------------------------------------------------------------ bounds
MaxId == 6
MaxTextLen == 2
MaxSteps == 1
MaxQueryTerms == 4
MaxEditLen == 3

NoId == 0
\* caret positions: 'end', 'start', or an offset >= 0
PosEnd == -1
PosStart == -2
Texts == { <<>>, <<"a">>, <<"b">> }

\* ------------------------------------------------------- sequence helpers
RemoveAt(s, i) == SubSeq(s, 1, i - 1) \o SubSeq(s, i + 1, Len(s))

InsertAt(s, i, x) == SubSeq(s, 1, i - 1) \o <<x>> \o SubSeq(s, i, Len(s))

Front(p) == SubSeq(p, 1, Len(p) - 1)

Last(p) == p[Len(p)]

RECURSIVE ListAt(_, _)
ListAt(nodes, ppath) ==
  IF ppath = <<>> THEN nodes
  ELSE ListAt(nodes[Head(ppath)].children, Tail(ppath))

NodeAt(nodes, path) == ListAt(nodes, Front(path))[Last(path)]

RECURSIVE SetListAt(_, _, _)
SetListAt(nodes, ppath, newList) ==
  IF ppath = <<>> THEN newList
  ELSE [nodes EXCEPT ![Head(ppath)] =
          [@ EXCEPT !.children = SetListAt(@, Tail(ppath), newList)]]

SetNodeAt(nodes, path, n) ==
  SetListAt(nodes, Front(path), [ListAt(nodes, Front(path)) EXCEPT ![Last(path)] = n])

\* index of the first element of nodes with the given id, 0 when there is none
\* (Array.prototype.findIndex, 1-based)
findIndex(nodes, id) ==
  IF \E i \in 1..Len(nodes) : nodes[i].id = id
  THEN CHOOSE i \in 1..Len(nodes) :
         nodes[i].id = id /\ \A j \in 1..(i - 1) : nodes[j].id # id
  ELSE 0

\* --------------------------------------------------------------- creation
createNewBullet(id, text) ==
  [id |-> id, text |-> text, children |-> <<>>,
   isCollapsed |-> FALSE, isReadOnly |-> FALSE]

\* ---------------------------------------------------- findBulletAndParent
RECURSIVE FindFrom(_, _, _)
FindFrom(id, nodes, i) ==
  IF i > Len(nodes) THEN <<>>
  ELSE IF nodes[i].id = id THEN <<i>>
  ELSE LET sub == FindFrom(id, nodes[i].children, 1)
       IN IF sub # <<>> THEN <<i>> \o sub ELSE FindFrom(id, nodes, i + 1)

findBulletAndParent(id, nodes) == FindFrom(id, nodes, 1)

\* pre-order list of all ids of a forest (with repetitions, if any)
RECURSIVE AllIds(_)
AllIds(nodes) ==
  IF nodes = <<>> THEN <<>>
  ELSE <<Head(nodes).id>> \o AllIds(Head(nodes).children) \o AllIds(Tail(nodes))

IdSet(nodes) == { AllIds(nodes)[i] : i \in 1..Len(AllIds(nodes)) }

\* ==================================================== src/unnamed/part_006
\* `updates` is a Partial<Bullet> with one key: [key |-> "text", value |-> t]
\* or [key |-> "isCollapsed", value |-> c].
applyUpdates(bullet, updates) ==
  IF updates.key = "text" THEN [bullet EXCEPT !.text = updates.value]
  ELSE [bullet EXCEPT !.isCollapsed = updates.value]

\* mapBullets with the callback of handleUpdate: the callback is applied to a
\* node and then to the children of the node it returned.
RECURSIVE mapBullets(_, _, _)
mapBullets(nodes, id, updates) ==
  [i \in 1..Len(nodes) |->
     LET newNode == IF nodes[i].id = id THEN applyUpdates(nodes[i], updates)
                    ELSE nodes[i]
     IN [newNode EXCEPT !.children = mapBullets(newNode.children, id, updates)]]

handleUpdate(prevBullets, id, updates) ==
  LET found == findBulletAndParent(id, prevBullets) IN
  IF found # <<>> /\ NodeAt(prevBullets, found).isReadOnly THEN prevBullets
  ELSE mapBullets(prevBullets, id, updates)

\* handleAddSibling splicing the new item in at the index of the item
handleAddSiblingBefore(prevBullets, id, newBullet) ==
  LET found == findBulletAndParent(id, prevBullets) IN
  IF found = <<>> THEN prevBullets
  ELSE IF NodeAt(prevBullets, found).isReadOnly THEN prevBullets
  ELSE SetListAt(prevBullets, Front(found),
         InsertAt(ListAt(prevBullets, Front(found)), Last(found), newBullet))

\* handleAddSibling
handleAddSibling(prevBullets, id, newBullet) ==
  LET found == findBulletAndParent(id, prevBullets) IN
  IF found = <<>> THEN prevBullets
  ELSE IF NodeAt(prevBullets, found).isReadOnly THEN prevBullets
  ELSE SetListAt(prevBullets, Front(found),
         InsertAt(ListAt(prevBullets, Front(found)), Last(found) + 1, newBullet))

handleDelete(prevBullets, id) ==
  LET found == findBulletAndParent(id, prevBullets) IN
  IF found = <<>> THEN prevBullets
  ELSE IF NodeAt(prevBullets, found).isReadOnly THEN prevBullets
  ELSE SetListAt(prevBullets, Front(found),
         RemoveAt(ListAt(prevBullets, Front(found)), Last(found)))

\* prevSiblingId of handleDelete: the id handed to handleFocusChange
deletePrevSiblingId(prevBullets, id) ==
  LET found == findBulletAndParent(id, prevBullets) IN
  IF found = <<>> THEN NoId
  ELSE IF NodeAt(prevBullets, found).isReadOnly THEN NoId
  ELSE IF Last(found) > 1
       THEN ListAt(prevBullets, Front(found))[Last(found) - 1].id
  ELSE IF Len(found) > 1 THEN NodeAt(prevBullets, Front(found)).id
  ELSE NoId

\* handleMerge deleting a first item whatever its text
mergeBranchAnyText(prevBullets, id) ==
  LET foundTarget == findBulletAndParent(id, prevBullets) IN
  IF foundTarget = <<>> THEN "none"
  ELSE IF NodeAt(prevBullets, foundTarget).isReadOnly THEN "none"
  ELSE IF Last(foundTarget) > 1
       THEN IF ListAt(prevBullets, Front(foundTarget))[Last(foundTarget) - 1].isReadOnly
            THEN "none" ELSE "prev"
  ELSE "first"

\* which branch of handleMerge runs: "none", "prev" (index > 0) or "first"
mergeBranch(prevBullets, id) ==
  LET foundTarget == findBulletAndParent(id, prevBullets) IN
  IF foundTarget = <<>> THEN "none"
  ELSE IF NodeAt(prevBullets, foundTarget).isReadOnly THEN "none"
  ELSE IF Last(foundTarget) > 1
       THEN IF ListAt(prevBullets, Front(foundTarget))[Last(foundTarget) - 1].isReadOnly
            THEN "none" ELSE "prev"
  ELSE IF NodeAt(prevBullets, foundTarget).text = <<>> THEN "first"
  ELSE "none"

handleMerge(prevBullets, id) ==
  LET found == findBulletAndParent(id, prevBullets)
      branch == mergeBranch(prevBullets, id)
  IN
  IF branch = "prev" THEN
    LET siblings == ListAt(prevBullets, Front(found))
        node == siblings[Last(found)]
        prevSibling == siblings[Last(found) - 1]
        merged == [prevSibling EXCEPT
                     !.text = @ \o node.text,
                     !.children = @ \o node.children,
                     !.isCollapsed = IF Len(node.children) > 0 THEN FALSE ELSE @]
    IN SetListAt(prevBullets, Front(found),
         RemoveAt([siblings EXCEPT ![Last(found) - 1] = merged], Last(found)))
  ELSE IF branch = "first" THEN
    SetListAt(prevBullets, Front(found),
      RemoveAt(ListAt(prevBullets, Front(found)), Last(found)))
  ELSE prevBullets

\* the focus request handleMerge queues with setTimeout: <<id, position>>,
\* or <<>> when it queues none
mergeFocus(prevBullets, id) ==
  LET found == findBulletAndParent(id, prevBullets)
      branch == mergeBranch(prevBullets, id)
  IN
  IF branch = "prev" THEN
    LET prevSibling == ListAt(prevBullets, Front(found))[Last(found) - 1]
    IN << [kind |-> "focus", id |-> prevSibling.id, position |-> Len(prevSibling.text)] >>
  ELSE IF branch = "first" THEN
    << [kind |-> "focus",
        id |-> IF Len(found) > 1 THEN NodeAt(prevBullets, Front(found)).id ELSE NoId,
        position |-> PosEnd] >>
  ELSE <<>>

\* handleIndent leaving the fold flag of the new parent as it is
handleIndentKeepFold(prevBullets, id) ==
  LET found == findBulletAndParent(id, prevBullets) IN
  IF found = <<>> THEN prevBullets
  ELSE IF NodeAt(prevBullets, found).isReadOnly THEN prevBullets
  ELSE IF Last(found) > 1 THEN
    LET siblings == ListAt(prevBullets, Front(found))
        prevSibling == siblings[Last(found) - 1]
        movedNode == siblings[Last(found)]
    IN IF prevSibling.isReadOnly THEN prevBullets
       ELSE SetListAt(prevBullets, Front(found),
              RemoveAt([siblings EXCEPT ![Last(found) - 1] =
                          [prevSibling EXCEPT !.children = Append(@, movedNode)]],
                       Last(found)))
  ELSE prevBullets

\* handleIndent
handleIndent(prevBullets, id) ==
  LET found == findBulletAndParent(id, prevBullets) IN
  IF found = <<>> THEN prevBullets
  ELSE IF NodeAt(prevBullets, found).isReadOnly THEN prevBullets
  ELSE IF Last(found) > 1 THEN
    LET siblings == ListAt(prevBullets, Front(found))
        prevSibling == siblings[Last(found) - 1]
        movedNode == siblings[Last(found)]
    IN IF prevSibling.isReadOnly THEN prevBullets
       ELSE SetListAt(prevBullets, Front(found),
              RemoveAt([siblings EXCEPT ![Last(found) - 1] =
                          [prevSibling EXCEPT !.children = Append(@, movedNode),
                                              !.isCollapsed = FALSE]],
                       Last(found)))
  ELSE prevBullets

\* handleOutdent splicing the item in at the index of its parent
handleOutdentBeforeParent(prevBullets, id) ==
  LET found == findBulletAndParent(id, prevBullets) IN
  IF found = <<>> THEN prevBullets
  ELSE IF NodeAt(prevBullets, found).isReadOnly THEN prevBullets
  ELSE IF Len(found) > 1 THEN
    LET parent == NodeAt(prevBullets, Front(found))
        parentInfo == findBulletAndParent(parent.id, prevBullets)
    IN IF parentInfo # <<>> /\ ~NodeAt(prevBullets, parentInfo).isReadOnly THEN
         LET siblings == parent.children
             index == Last(found)
             subsequentSiblings == SubSeq(siblings, index + 1, Len(siblings))
             movedNode == [siblings[index] EXCEPT !.children = @ \o subsequentSiblings]
             cut == SetListAt(prevBullets, Front(found), SubSeq(siblings, 1, index - 1))
         IN SetListAt(cut, Front(parentInfo),
              InsertAt(ListAt(cut, Front(parentInfo)), Last(parentInfo), movedNode))
       ELSE prevBullets
  ELSE prevBullets

\* handleOutdent: the later siblings follow the item
handleOutdent(prevBullets, id) ==
  LET found == findBulletAndParent(id, prevBullets) IN
  IF found = <<>> THEN prevBullets
  ELSE IF NodeAt(prevBullets, found).isReadOnly THEN prevBullets
  ELSE IF Len(found) > 1 THEN
    LET parent == NodeAt(prevBullets, Front(found))
        parentInfo == findBulletAndParent(parent.id, prevBullets)
    IN IF parentInfo # <<>> /\ ~NodeAt(prevBullets, parentInfo).isReadOnly THEN
         LET siblings == parent.children
             index == Last(found)
             subsequentSiblings == SubSeq(siblings, index + 1, Len(siblings))
             movedNode == [siblings[index] EXCEPT !.children = @ \o subsequentSiblings]
             cut == SetListAt(prevBullets, Front(found), SubSeq(siblings, 1, index - 1))
         IN SetListAt(cut, Front(parentInfo),
              InsertAt(ListAt(cut, Front(parentInfo)), Last(parentInfo) + 1, movedNode))
       ELSE prevBullets
  ELSE prevBullets

RECURSIVE setCollapseRecursively(_, _)
setCollapseRecursively(nodes, collapse) ==
  [i \in 1..Len(nodes) |->
     IF Len(nodes[i].children) > 0
     THEN [nodes[i] EXCEPT
             !.isCollapsed = collapse,
             !.children = IF ~nodes[i].isReadOnly
                          THEN setCollapseRecursively(@, collapse) ELSE @]
     ELSE nodes[i]]

RECURSIVE findAndFold(_, _, _)
findAndFold(nodes, id, collapse) ==
  [i \in 1..Len(nodes) |->
     IF nodes[i].id = id
     THEN IF Len(nodes[i].children) > 0
          THEN [nodes[i] EXCEPT
                  !.isCollapsed = collapse,
                  !.children = setCollapseRecursively(@, collapse)]
          ELSE nodes[i]
     ELSE IF Len(nodes[i].children) > 0
          THEN [nodes[i] EXCEPT !.children = findAndFold(@, id, collapse)]
     ELSE nodes[i]]

handleFoldAll(prevBullets, id, collapse) == findAndFold(prevBullets, id, collapse)

Swap(s, i, j) == [s EXCEPT ![i] = s[j], ![j] = s[i]]

\* a move that splices the item out and does not put it back
handleMoveBulletDrop(prevBullets, id, direction) ==
  LET found == findBulletAndParent(id, prevBullets) IN
  IF found = <<>> THEN prevBullets
  ELSE IF NodeAt(prevBullets, found).isReadOnly THEN prevBullets
  ELSE SetListAt(prevBullets, Front(found),
                 RemoveAt(ListAt(prevBullets, Front(found)), Last(found)))

handleMoveBullet(prevBullets, id, direction) ==
  LET found == findBulletAndParent(id, prevBullets) IN
  IF found = <<>> THEN prevBullets
  ELSE IF NodeAt(prevBullets, found).isReadOnly THEN prevBullets
  ELSE LET siblings == ListAt(prevBullets, Front(found))
           index == Last(found)
       IN IF direction = "up" /\ index > 1
          THEN SetListAt(prevBullets, Front(found), Swap(siblings, index, index - 1))
          ELSE IF direction = "down" /\ index < Len(siblings)
          THEN SetListAt(prevBullets, Front(found), Swap(siblings, index, index + 1))
          ELSE prevBullets

\* ============================================================ src/App.tsx
\* The handlers of src/App.tsx.  None of them looks at isReadOnly.
RECURSIVE updateNodeApp(_, _, _)
updateNodeApp(nodes, id, updates) ==
  [i \in 1..Len(nodes) |->
     IF nodes[i].id = id THEN applyUpdates(nodes[i], updates)
     ELSE IF Len(nodes[i].children) > 0
          THEN [nodes[i] EXCEPT !.children = updateNodeApp(@, id, updates)]
     ELSE nodes[i]]

handleUpdateApp(prev, id, updates) == updateNodeApp(prev, id, updates)

RECURSIVE addSiblingApp(_, _, _)
addSiblingApp(nodes, id, newBullet) ==
  LET index == findIndex(nodes, id) IN
  IF index # 0 THEN InsertAt(nodes, index + 1, newBullet)
  ELSE [i \in 1..Len(nodes) |->
          IF Len(nodes[i].children) > 0
          THEN [nodes[i] EXCEPT !.children = addSiblingApp(@, id, newBullet)]
          ELSE nodes[i]]

handleAddSiblingApp(prev, id, newBullet) == addSiblingApp(prev, id, newBullet)

\* nodes.filter(n => n.id !== id)
RECURSIVE FilterOutId(_, _)
FilterOutId(nodes, id) ==
  IF nodes = <<>> THEN <<>>
  ELSE IF Head(nodes).id = id THEN FilterOutId(Tail(nodes), id)
  ELSE <<Head(nodes)>> \o FilterOutId(Tail(nodes), id)

RECURSIVE deleteNodeApp(_, _)
deleteNodeApp(nodes, id) ==
  IF findIndex(nodes, id) # 0 THEN FilterOutId(nodes, id)
  ELSE [i \in 1..Len(nodes) |->
          [nodes[i] EXCEPT !.children = deleteNodeApp(@, id)]]

handleDeleteApp(prev, id) == deleteNodeApp(prev, id)

RECURSIVE indentApp(_, _)
indentApp(nodes, id) ==
  LET index == findIndex(nodes, id) IN
  IF index > 1 THEN
    LET nodeToIndent == nodes[index]
        prevSibling == nodes[index - 1]
        newPrevSibling == [prevSibling EXCEPT
                             !.children = Append(@, nodeToIndent),
                             !.isCollapsed = FALSE]
    IN RemoveAt([nodes EXCEPT ![index - 1] = newPrevSibling], index)
  ELSE [i \in 1..Len(nodes) |->
          IF Len(nodes[i].children) > 0
          THEN [nodes[i] EXCEPT !.children = indentApp(@, id)]
          ELSE nodes[i]]

handleIndentApp(prev, id) == indentApp(prev, id)

\* outdentNode returns {nodes, success}
RECURSIVE outdentNodeApp(_, _, _)
outdentNodeApp(nodes, id, i) ==
  IF i > Len(nodes) THEN [nodes |-> nodes, success |-> FALSE]
  ELSE
    LET node == nodes[i]
        childIdx == findIndex(node.children, id)
    IN IF childIdx # 0 THEN
         LET child == node.children[childIdx]
             newNode == [node EXCEPT !.children = RemoveAt(@, childIdx)]
         IN [nodes |-> InsertAt([nodes EXCEPT ![i] = newNode], i + 1, child),
             success |-> TRUE]
       ELSE
         LET res == outdentNodeApp(node.children, id, 1) IN
         IF res.success
         THEN [nodes |-> [nodes EXCEPT ![i] = [node EXCEPT !.children = res.nodes]],
               success |-> TRUE]
         ELSE outdentNodeApp(nodes, id, i + 1)

handleOutdentApp(prev, id) ==
  LET result == outdentNodeApp(prev, id, 1) IN
  IF result.success THEN result.nodes ELSE prev

RECURSIVE moveApp(_, _, _)
moveApp(nodes, id, direction) ==
  LET index == findIndex(nodes, id) IN
  IF index # 0 THEN
    IF direction = "up" /\ index > 1 THEN Swap(nodes, index, index - 1)
    ELSE IF direction = "down" /\ index < Len(nodes) THEN Swap(nodes, index, index + 1)
    ELSE nodes
  ELSE [i \in 1..Len(nodes) |->
          [nodes[i] EXCEPT !.children = moveApp(@, id, direction)]]

handleMoveBulletApp(prev, id, direction) == moveApp(prev, id, direction)

RECURSIVE mergeApp(_, _)
mergeApp(nodes, id) ==
  LET index == findIndex(nodes, id) IN
  IF index > 1 THEN
    LET current == nodes[index]
        previous == nodes[index - 1]
        newPrevious == [previous EXCEPT
                          !.text = @ \o current.text,
                          !.children = @ \o current.children]
    IN RemoveAt([nodes EXCEPT ![index - 1] = newPrevious], index)
  ELSE IF index = 1 THEN nodes
  ELSE [i \in 1..Len(nodes) |->
          [nodes[i] EXCEPT !.children = mergeApp(@, id)]]

handleMergeApp(prev, id) == mergeApp(prev, id)

\* the focus request queued by merge(): <<[id, position]>> or <<>>
RECURSIVE mergeFocusApp(_, _, _)
mergeFocusApp(nodes, id, i) ==
  LET index == findIndex(nodes, id) IN
  IF index > 1
  THEN << [kind |-> "focus", id |-> nodes[index - 1].id,
          position |-> Len(nodes[index - 1].text)] >>
  ELSE IF index = 1 THEN <<>>
  ELSE IF i > Len(nodes) THEN <<>>
  ELSE LET sub == mergeFocusApp(nodes[i].children, id, 1) IN
       IF sub # <<>> THEN sub ELSE mergeFocusApp(nodes, id, i + 1)

RECURSIVE toggleApp(_, _, _)
toggleApp(nodes, id, collapse) ==
  [i \in 1..Len(nodes) |->
     IF nodes[i].id = id THEN [nodes[i] EXCEPT !.isCollapsed = collapse]
     ELSE IF Len(nodes[i].children) > 0
          THEN [nodes[i] EXCEPT !.children = toggleApp(@, id, collapse)]
     ELSE nodes[i]]

handleFoldAllApp(prev, id, collapse) == toggleApp(prev, id, collapse)

\* the focus request the deleteNode updater of src/App.tsx queues
RECURSIVE deleteFocusApp(_, _, _, _)
deleteFocusApp(nodes, id, parentId, i) ==
  LET index == findIndex(nodes, id) IN
  IF index > 1 THEN <<>>
  ELSE IF index = 1
       THEN IF parentId # NoId THEN << [kind |-> "focus", id |-> parentId, position |-> PosEnd] >>
            ELSE <<>>
  ELSE IF i > Len(nodes) THEN <<>>
  ELSE IF FindFrom(id, nodes[i].children, 1) # <<>>
       THEN deleteFocusApp(nodes[i].children, id, nodes[i].id, 1)
  ELSE deleteFocusApp(nodes, id, parentId, i + 1)

\* ===================================== code shared by the two App variants
\* regenerateIds: every node of the payload gets a new id; `first` is the
\* first unused id (crypto.randomUUID never returns an id in use).
RECURSIVE CountNodes(_)
CountNodes(nodes) ==
  IF nodes = <<>> THEN 0
  ELSE 1 + CountNodes(Head(nodes).children) + CountNodes(Tail(nodes))

\* regenerateIds keeping the ids of the file
regenerateIdsKeep(nodes, first) == nodes

RECURSIVE regenerateIds(_, _)
regenerateIds(nodes, first) ==
  IF nodes = <<>> THEN <<>>
  ELSE LET h == Head(nodes) IN
       << [h EXCEPT !.id = first,
                    !.children = regenerateIds(h.children, first + 1)] >>
       \o regenerateIds(Tail(nodes), first + 1 + CountNodes(h.children))

\* displayedBullets falling back to the whole outline
displayedBulletsOrAll(nodes, zoomedId) ==
  IF zoomedId = NoId THEN nodes
  ELSE LET z == findBulletAndParent(zoomedId, nodes) IN
       IF z # <<>> THEN NodeAt(nodes, z).children ELSE nodes

\* displayedBullets
displayedBullets(nodes, zoomedId) ==
  IF zoomedId = NoId THEN nodes
  ELSE LET z == findBulletAndParent(zoomedId, nodes) IN
       IF z # <<>> THEN NodeAt(nodes, z).children ELSE <<>>

\* getVisibleIds walking into the children of collapsed items too
RECURSIVE getVisibleIdsAll(_)
getVisibleIdsAll(nodes) ==
  IF nodes = <<>> THEN <<>>
  ELSE LET h == Head(nodes) IN
       <<h.id>>
       \o (IF Len(h.children) > 0 THEN getVisibleIdsAll(h.children) ELSE <<>>)
       \o getVisibleIdsAll(Tail(nodes))

\* getVisibleIds
RECURSIVE getVisibleIds(_)
getVisibleIds(nodes) ==
  IF nodes = <<>> THEN <<>>
  ELSE LET h == Head(nodes) IN
       <<h.id>>
       \o (IF ~h.isCollapsed /\ Len(h.children) > 0 THEN getVisibleIds(h.children) ELSE <<>>)
       \o getVisibleIds(Tail(nodes))

visibleBulletIds(nodes, zoomedId) == getVisibleIds(displayedBullets(nodes, zoomedId))

\* breadcrumbs: ids on the path from a root to zoomedId, zoomedId included
breadcrumbs(nodes, zoomedId) ==
  IF zoomedId = NoId THEN {}
  ELSE LET z == findBulletAndParent(zoomedId, nodes) IN
       { NodeAt(nodes, SubSeq(z, 1, k)).id : k \in 1..Len(z) }

\* the auto-prune effect without the test of the text
autoPruneAnyText(nodes, prevId, currentId) ==
  IF prevId # NoId /\ prevId # currentId THEN
    LET found == findBulletAndParent(prevId, nodes) IN
    IF found # <<>>
       /\ ~NodeAt(nodes, found).isReadOnly
       /\ Len(NodeAt(nodes, found).children) = 0
    THEN SetListAt(nodes, Front(found), RemoveAt(ListAt(nodes, Front(found)), Last(found)))
    ELSE nodes
  ELSE nodes

\* the auto-prune effect: the tree after the effect ran for a render with
\* previous focus prevId and current focus currentId
autoPrune(nodes, prevId, currentId) ==
  IF prevId # NoId /\ prevId # currentId THEN
    LET found == findBulletAndParent(prevId, nodes) IN
    IF found # <<>>
       /\ ~NodeAt(nodes, found).isReadOnly
       /\ NodeAt(nodes, found).text = <<>>
       /\ Len(NodeAt(nodes, found).children) = 0
    THEN SetListAt(nodes, Front(found), RemoveAt(ListAt(nodes, Front(found)), Last(found)))
    ELSE nodes
  ELSE nodes

\* ------------------------------------------------------- handleGoToJournal
DAILY_LOG_ROOT_TEXT == <<"D", "a", "i", "l", "y", " ", "L", "o", "g">>
\* the date of the run: year, month and dayText of handleGoToJournal
year == <<"2", "0", "2", "6">>
month == <<"1", "1">>
dayText == <<"2", "0", "2", "6", "-", "1", "1", "-", "0", "4">>

\* Array.prototype.find by text: index of the first node with that text, or 0
findText(nodes, text) ==
  IF \E i \in 1..Len(nodes) : nodes[i].text = text
  THEN CHOOSE i \in 1..Len(nodes) :
         nodes[i].text = text /\ \A j \in 1..(i - 1) : nodes[j].text # text
  ELSE 0

\* "find the child with this text, create and push it when there is none":
\* the list, the index of the child in it, and the next unused id
ensureChild(list, text, nid) ==
  IF findText(list, text) # 0
  THEN [list |-> list, index |-> findText(list, text), nid |-> nid]
  ELSE [list |-> Append(list, createNewBullet(nid, text)),
        index |-> Len(list) + 1, nid |-> nid + 1]

ensureJournalPath(currentNodes, nid) ==
  LET hasRoot == findText(currentNodes, DAILY_LOG_ROOT_TEXT) # 0
      roots == IF hasRoot THEN currentNodes
               ELSE <<createNewBullet(nid, DAILY_LOG_ROOT_TEXT)>> \o currentNodes
      ji == findText(roots, DAILY_LOG_ROOT_TEXT)
      y == ensureChild(roots[ji].children, year, IF hasRoot THEN nid ELSE nid + 1)
      m == ensureChild(y.list[y.index].children, month, y.nid)
      d == ensureChild(m.list[m.index].children, dayText, m.nid)
      withYear == SetListAt(roots, <<ji>>, y.list)
      withMonth == SetListAt(withYear, <<ji, y.index>>, m.list)
      withDay == SetListAt(withMonth, <<ji, y.index, m.index>>, d.list)
  IN [nodes |-> withDay,
      monthId |-> m.list[m.index].id,
      dayId |-> d.list[d.index].id,
      nid |-> d.nid]

\* ------------------------------------------------------ handleConfirmImport
\* migrateBullets rebuilds every item of the payload with its children
\* migrated (the timestamps it fills in are not part of the model)
RECURSIVE migrateBullets(_)
migrateBullets(nodes) ==
  [i \in 1..Len(nodes) |->
     [nodes[i] EXCEPT !.children = migrateBullets(@)]]

\* handleConfirmImport putting the payload in place of the outline
handleConfirmImportReplace(currentBullets, targetId, nodesToImport) ==
  nodesToImport

\* handleConfirmImport of src/unnamed/part_006
handleConfirmImport(currentBullets, targetId, nodesToImport) ==
  IF targetId = NoId THEN currentBullets \o nodesToImport
  ELSE LET found == findBulletAndParent(targetId, currentBullets) IN
       IF found # <<>> /\ ~NodeAt(currentBullets, found).isReadOnly
       THEN SetNodeAt(currentBullets, found,
              [NodeAt(currentBullets, found) EXCEPT
                 !.children = @ \o nodesToImport, !.isCollapsed = FALSE])
       ELSE currentBullets

RECURSIVE addToTargetApp(_, _, _)
addToTargetApp(nodes, targetId, imported) ==
  [i \in 1..Len(nodes) |->
     IF nodes[i].id = targetId
     THEN [nodes[i] EXCEPT !.children = @ \o imported, !.isCollapsed = FALSE]
     ELSE [nodes[i] EXCEPT !.children = addToTargetApp(@, targetId, imported)]]

handleConfirmImportApp(prev, targetId, imported) ==
  IF targetId = NoId THEN prev \o imported
  ELSE addToTargetApp(prev, targetId, imported)

\* --------------------------------------------------------- focus movement
\* Array.prototype.indexOf on a list of ids, 1-based, 0 if absent
indexOf(ids, id) ==
  IF \E i \in 1..Len(ids) : ids[i] = id
  THEN CHOOSE i \in 1..Len(ids) : ids[i] = id /\ \A k \in 1..(i - 1) : ids[k] # id
  ELSE 0

\* handleFocusMove going round to the other end of the list
handleFocusMoveWrap(visibleIds, currentFocusId, direction) ==
  IF currentFocusId = NoId
  THEN IF Len(visibleIds) > 0 THEN visibleIds[1] ELSE NoId
  ELSE LET currentIndex == indexOf(visibleIds, currentFocusId) IN
       IF currentIndex = 0 THEN NoId
       ELSE IF direction = "down"
            THEN IF currentIndex + 1 <= Len(visibleIds)
                 THEN visibleIds[currentIndex + 1] ELSE visibleIds[1]
            ELSE IF currentIndex - 1 >= 1
                 THEN visibleIds[currentIndex - 1] ELSE visibleIds[Len(visibleIds)]

\* handleFocusMove of src/unnamed/part_006: the id handed to
\* handleFocusChange, NoId when it is not called
handleFocusMove(visibleIds, currentFocusId, direction) ==
  IF currentFocusId = NoId
  THEN IF Len(visibleIds) > 0 THEN visibleIds[1] ELSE NoId
  ELSE LET currentIndex == indexOf(visibleIds, currentFocusId) IN
       IF currentIndex = 0 THEN NoId
       ELSE IF direction = "down"
            THEN IF currentIndex + 1 <= Len(visibleIds)
                 THEN visibleIds[currentIndex + 1] ELSE NoId
            ELSE IF currentIndex - 1 >= 1
                 THEN visibleIds[currentIndex - 1] ELSE NoId

\* getFlatVisibleBullets of src/App.tsx
getFlatVisibleBullets(nodes, zoomedId) == getVisibleIds(displayedBullets(nodes, zoomedId))

\* handleFocusMove of src/App.tsx
handleFocusMoveApp(visibleIds, currentFocusId, direction) ==
  IF currentFocusId = NoId THEN NoId
  ELSE LET idx == indexOf(visibleIds, currentFocusId)
           nextIdx == IF direction = "up" THEN idx - 1 ELSE idx + 1
       IN IF idx = 0 THEN NoId
          ELSE IF nextIdx >= 1 /\ nextIdx <= Len(visibleIds)
               THEN visibleIds[nextIdx] ELSE NoId

\* handleFocusParent of src/unnamed/part_006: the parent of id inside the
\* zoom scope, NoId when handleFocusChange is not called
handleFocusParent(currentBullets, zoomedId, id) ==
  LET scope == IF zoomedId # NoId
               THEN LET z == findBulletAndParent(zoomedId, currentBullets) IN
                    IF z # <<>> THEN NodeAt(currentBullets, z).children ELSE <<>>
               ELSE currentBullets
      found == findBulletAndParent(id, scope)
  IN IF Len(found) > 1 THEN NodeAt(scope, Front(found)).id ELSE NoId

\* handleFocusParent of src/App.tsx: the parent of id in the whole outline
handleFocusParentApp(nodes, id) ==
  LET found == findBulletAndParent(id, nodes) IN
  IF Len(found) > 1 THEN NodeAt(nodes, Front(found)).id ELSE NoId

\* handleFocusChild of src/unnamed/part_006: the first child of an unfolded
\* item, NoId when handleFocusChange is not called
handleFocusChild(currentBullets, id) ==
  LET found == findBulletAndParent(id, currentBullets) IN
  IF found # <<>> /\ Len(NodeAt(currentBullets, found).children) > 0
     /\ ~NodeAt(currentBullets, found).isCollapsed
  THEN NodeAt(currentBullets, found).children[1].id ELSE NoId

\* handleFocusChild of src/App.tsx
handleFocusChildApp(nodes, id) ==
  LET found == findBulletAndParent(id, nodes) IN
  IF found # <<>> /\ Len(NodeAt(nodes, found).children) > 0
  THEN NodeAt(nodes, found).children[1].id ELSE NoId

\* -------------------------------------------------------------- handleZoom
\* the updater of handleZoom putting the new item next to the leaf
zoomAddSibling(prevBullets, id, newBullet) ==
  LET found == findBulletAndParent(id, prevBullets) IN
  IF found # <<>>
  THEN SetListAt(prevBullets, Front(found),
         InsertAt(ListAt(prevBullets, Front(found)), Last(found) + 1, newBullet))
  ELSE prevBullets

\* the updater of handleZoom for a leaf: the new item becomes a child of the
\* leaf and the leaf is unfolded
zoomAddChild(prevBullets, id, newBullet) ==
  LET found == findBulletAndParent(id, prevBullets) IN
  IF found # <<>>
  THEN SetNodeAt(prevBullets, found,
         [NodeAt(prevBullets, found) EXCEPT !.children = Append(@, newBullet),
                                            !.isCollapsed = FALSE])
  ELSE prevBullets

\* ---------------------------------------------------------------- strings
\* a string is a sequence of characters
Whitespace == {" ", "\t", "\n"}

toLowerCaseChar(c) ==
  CASE c = "A" -> "a" [] c = "B" -> "b" [] c = "C" -> "c"
    [] c = "O" -> "o" [] c = "R" -> "r" [] OTHER -> c

toLowerCase(str) == [i \in 1..Len(str) |-> toLowerCaseChar(str[i])]

RECURSIVE trimStart(_)
trimStart(str) ==
  IF str # <<>> /\ Head(str) \in Whitespace THEN trimStart(Tail(str)) ELSE str

RECURSIVE trimEnd(_)
trimEnd(str) ==
  IF str # <<>> /\ str[Len(str)] \in Whitespace
  THEN trimEnd(SubSeq(str, 1, Len(str) - 1)) ELSE str

trim(str) == trimEnd(trimStart(str))

\* String.prototype.includes
includes(str, search) ==
  \E i \in 0..(Len(str) - Len(search)) : SubSeq(str, i + 1, i + Len(search)) = search

\* String.prototype.startsWith
startsWith(str, search) ==
  Len(search) <= Len(str) /\ SubSeq(str, 1, Len(search)) = search

\* the first index from i on that holds no whitespace, Len(str) + 1 if none
RECURSIVE skipWhitespace(_, _)
skipWhitespace(str, i) ==
  IF i <= Len(str) /\ str[i] \in Whitespace THEN skipWhitespace(str, i + 1) ELSE i

\* the first index from i on that holds whitespace, Len(str) + 1 if none
RECURSIVE skipWord(_, _)
skipWord(str, i) ==
  IF i <= Len(str) /\ str[i] \notin Whitespace THEN skipWord(str, i + 1) ELSE i

\* str.split(/\s+/).filter(term => term)
RECURSIVE splitTerms(_)
splitTerms(str) ==
  LET from == skipWhitespace(str, 1)
      to == skipWord(str, from)
  IN IF from > Len(str) THEN <<>>
     ELSE << SubSeq(str, from, to - 1) >> \o splitTerms(SubSeq(str, to, Len(str)))

\* a match of /\s+or\s+/i that begins at index i: the index after the
\* match, 0 if there is none
matchOrAt(str, i) ==
  IF i <= Len(str) /\ str[i] \in Whitespace
  THEN LET j == skipWhitespace(str, i) IN
       IF /\ j + 2 <= Len(str)
          /\ toLowerCaseChar(str[j]) = "o"
          /\ toLowerCaseChar(str[j + 1]) = "r"
          /\ str[j + 2] \in Whitespace
       THEN skipWhitespace(str, j + 2)
       ELSE 0
  ELSE 0

\* str.split(/\s+or\s+/i)
RECURSIVE splitOr(_)
splitOr(str) ==
  LET starts == { i \in 1..Len(str) : matchOrAt(str, i) # 0 } IN
  IF starts = {} THEN << str >>
  ELSE LET i == CHOOSE k \in starts : \A m \in starts : k <= m IN
       << SubSeq(str, 1, i - 1) >>
       \o splitOr(SubSeq(str, matchOrAt(str, i), Len(str)))

\* ------------------------------------------------------------- SearchModal
\* filteredBullets of SearchModal: list is the bullets prop
filteredBullets(query, list) ==
  LET trimmedQuery == trim(query)
      lowerCaseQuery == toLowerCase(trimmedQuery)
      orClauses == splitOr(lowerCaseQuery)
      searchConditionGroups == [k \in 1..Len(orClauses) |-> splitTerms(orClauses[k])]
      matches(bullet) ==
        \E k \in 1..Len(searchConditionGroups) :
          \A t \in 1..Len(searchConditionGroups[k]) :
            includes(toLowerCase(bullet.text), searchConditionGroups[k][t])
  IN IF trimmedQuery = <<>> THEN list
     ELSE SelectSeq(list, matches)

\* flatBullets of src/unnamed/part_005: every item with the texts of its
\* ancestors
Untitled == <<"U", "n", "t", "i", "t", "l", "e", "d">>

RECURSIVE traverse(_, _)
traverse(nodes, currentPath) ==
  IF nodes = <<>> THEN <<>>
  ELSE LET node == Head(nodes) IN
       << [id |-> node.id, text |-> node.text, path |-> currentPath,
           hasPath |-> TRUE] >>
       \o traverse(node.children,
            Append(currentPath, IF node.text = <<>> THEN Untitled ELSE node.text))
       \o traverse(Tail(nodes), currentPath)

flatBullets(nodes) == traverse(nodes, <<>>)

\* the bullets prop of SearchModal in src/unnamed/part_006 and src/App.tsx:
\* the root items of the outline, which carry no path
rootBullets(nodes) ==
  [i \in 1..Len(nodes) |->
     [id |-> nodes[i].id, text |-> nodes[i].text, path |-> <<>>,
      hasPath |-> FALSE]]

\* ---------------------------------------------------- handleTriggerLinkPopup
\* Array.prototype.slice(0, n)
slice(list, n) == SubSeq(list, 1, IF Len(list) < n THEN Len(list) ELSE n)

\* the score of an item for a link query
score(bullet, query) ==
  LET lowerText == toLowerCase(bullet.text)
      lowerQuery == toLowerCase(query)
  IN IF startsWith(lowerText, lowerQuery) THEN 2
     ELSE IF includes(lowerText, lowerQuery) THEN 1
     ELSE 0

\* the suggestions of handleTriggerLinkPopup in src/unnamed/part_006 (and
\* src/unnamed/part_005): the sort by score is stable
suggestionsOf(currentBullets, bulletId, query) ==
  LET results == traverse(currentBullets, <<>>)
      kept == SelectSeq(results,
                LAMBDA b : score(b, query) > 0 /\ b.id # bulletId)
      sorted == SelectSeq(kept, LAMBDA b : score(b, query) = 2)
                \o SelectSeq(kept, LAMBDA b : score(b, query) = 1)
  IN IF query = <<>> THEN slice(results, 50)
     ELSE slice(sorted, 100)

\* the suggestions of handleTriggerLinkPopup in src/App.tsx
RECURSIVE traverseApp(_, _)
traverseApp(nodes, query) ==
  IF nodes = <<>> THEN <<>>
  ELSE LET n == Head(nodes) IN
       (IF includes(toLowerCase(n.text), toLowerCase(query))
        THEN << [id |-> n.id, text |-> n.text, path |-> <<>>, hasPath |-> TRUE] >>
        ELSE <<>>)
       \o traverseApp(n.children, query)
       \o traverseApp(Tail(nodes), query)

suggestionsOfApp(nodes, bulletId, query) == slice(traverseApp(nodes, query), 10)

\* -------------------------------------------------------------- BulletItem
\* the characters \w of a regular expression that occur in the model
WordChars == {"a", "b", "c", "t", "A", "B", "C", "O", "R", "o", "r"}

\* String.prototype.substring(from, to) with offsets counted from 0
substring(str, from, to) == SubSeq(str, from + 1, to)

\* textBeforeCursor.match(/(?:\s|^)#(\w*)$/): the offset match.index of the
\* match, -1 if there is none
tagMatchIndex(textBeforeCursor) ==
  LET hashes == { p \in 1..Len(textBeforeCursor) :
                    /\ textBeforeCursor[p] = "#"
                    /\ \A k \in (p + 1)..Len(textBeforeCursor) :
                         textBeforeCursor[k] \in WordChars
                    /\ \/ p = 1
                       \/ textBeforeCursor[p - 1] \in Whitespace }
  IN IF hashes = {} THEN -1
     ELSE LET p == CHOOSE h \in hashes : TRUE IN
          IF p > 1 THEN p - 2 ELSE 0

\* handleTagSelection: the new text and the new caret, or the text and the
\* caret as they are when the text before the caret ends in no tag prefix
handleTagSelection(text, cursor, selectedTag) ==
  LET textBeforeCursor == substring(text, 0, cursor)
      index == tagMatchIndex(textBeforeCursor)
      startIndex == index + (IF text[index + 1] = " " THEN 1 ELSE 0)
  IN IF index = -1 THEN [text |-> text, cursor |-> cursor, changed |-> FALSE]
     ELSE [text |-> substring(text, 0, startIndex) \o selectedTag \o <<" ">>
                    \o substring(text, cursor, Len(text)),
           cursor |-> startIndex + Len(selectedTag) + 1,
           changed |-> TRUE]

\* handleUpdate of src/unnamed/part_005: the read-only test looks at the
\* outline of the render the handler was created in
handleUpdateOld(prevBullets, renderedBullets, id, updates) ==
  LET found == findBulletAndParent(id, renderedBullets) IN
  IF found # <<>> /\ NodeAt(renderedBullets, found).isReadOnly THEN prevBullets
  ELSE mapBullets(prevBullets, id, updates)

\* handleTextKeyDown for Enter in src/unnamed/part_006 and src/App.tsx:
\* onUpdate and onAddSibling queue one updater each, applied in order
enterSplit(prevBullets, id, value, selectionStart, newId, app) ==
  LET textBeforeCursor == substring(value, 0, selectionStart)
      textAfterCursor == substring(value, selectionStart, Len(value))
      updated == IF app
                 THEN handleUpdateApp(prevBullets, id,
                        [key |-> "text", value |-> textBeforeCursor])
                 ELSE handleUpdate(prevBullets, id,
                        [key |-> "text", value |-> textBeforeCursor])
  IN IF app
     THEN handleAddSiblingApp(updated, id, createNewBullet(newId, textAfterCursor))
     ELSE handleAddSibling(updated, id, createNewBullet(newId, textAfterCursor))

\* handleTextKeyDown for Enter in src/unnamed/part_005: onAddSibling sets
\* the outline to a copy of the rendered outline with the new item, which
\* replaces what the updater of onUpdate has produced
enterSplitOld(renderedBullets, id, value, selectionStart, newId) ==
  LET textBeforeCursor == substring(value, 0, selectionStart)
      textAfterCursor == substring(value, selectionStart, Len(value))
      updated == handleUpdateOld(renderedBullets, renderedBullets, id,
                   [key |-> "text", value |-> textBeforeCursor])
      found == findBulletAndParent(id, renderedBullets)
  IN IF found # <<>> /\ ~NodeAt(renderedBullets, found).isReadOnly
     THEN handleAddSibling(renderedBullets, id,
            createNewBullet(newId, textAfterCursor))
     ELSE updated

\* ------------------------------------------------- recent list, favorites
\* src/unnamed/part_006.  An entry of either list is modelled by its id;
\* the recent list is kept newest first.
RECENT_LIMIT == 12

filterOut(list, id) == SelectSeq(list, LAMBDA item : item # id)

\* updateRecentList(id, text, updatedAt); textGiven is text !== undefined
updateRecentList(prev, id, textGiven) ==
  LET newList == filterOut(prev, id) IN
  IF ~textGiven /\ ~(\E i \in 1..Len(prev) : prev[i] = id)
  THEN prev
  ELSE slice(<<id>> \o newList, RECENT_LIMIT)

\* removeFromRecentList(id): what it does to one of the two lists
removeFromRecentList(prev, id) == filterOut(prev, id)

\* the recent list after handleConfirmImport: the imported items carry the
\* time of the import and sort before the entries that were there
importedRecents(prev, nodesToImport) ==
  slice(AllIds(nodesToImport) \o prev, RECENT_LIMIT)

\* ------------------------------------------------------ the update queue
\* setBullets of React: a call queues an update, the next render applies the
\* queued updates in order.  An update is an updater function (kind "fn":
\* the handler [op, id, arg] applied to the state it is handed), or a value
\* (kind "set") that was computed by the caller and replaces the state.
fnUpdate(op, id, arg) ==
  [kind |-> "fn", op |-> op, id |-> id, arg |-> arg, value |-> <<>>]

setUpdate(op, id, arg, value) ==
  [kind |-> "set", op |-> op, id |-> id, arg |-> arg, value |-> value]

\* setFocusOptions({ id, position }), queued like the updates of the tree
focusUpdate(id, position) ==
  [kind |-> "focus", op |-> "focus", id |-> id, arg |-> position, value |-> <<>>]

\* one queued update applied to the state prev
applyUpdate(prev, update) ==
  IF update.kind = "focus" THEN prev
  ELSE IF update.kind = "set" THEN update.value
  ELSE IF update.op = "addSibling" THEN handleAddSibling(prev, update.id, update.arg)
  ELSE prev \o update.arg

\* the state after the queued updates
RECURSIVE processUpdateQueue(_, _)
processUpdateQueue(prev, queue) ==
  IF queue = <<>> THEN prev
  ELSE processUpdateQueue(applyUpdate(prev, Head(queue)), Tail(queue))

\* the focus after the queued updates
RECURSIVE processFocusQueue(_, _)
processFocusQueue(prev, queue) ==
  IF queue = <<>> THEN prev
  ELSE processFocusQueue(
         IF Head(queue).kind = "focus"
         THEN [id |-> Head(queue).id, position |-> Head(queue).arg] ELSE prev,
         Tail(queue))

\* the updates handleConfirmImport queues: an updater for the root, a value
\* built from the outline of the last render for a target, nothing when
\* the target is missing or read-only
importUpdates(renderedBullets, targetId, nodesToImport) ==
  IF targetId = NoId THEN << fnUpdate("import", NoId, nodesToImport) >>
  ELSE LET found == findBulletAndParent(targetId, renderedBullets) IN
       IF found # <<>> /\ ~NodeAt(renderedBullets, found).isReadOnly
       THEN << setUpdate("import", targetId, nodesToImport,
                 handleConfirmImport(renderedBullets, targetId, nodesToImport)) >>
       ELSE <<>>

\* the update the auto-prune effect of a render queues
pruneUpdates(renderedBullets, prevId, currentId) ==
  IF autoPrune(renderedBullets, prevId, currentId) # renderedBullets
  THEN << setUpdate("prune", prevId, NoId,
            autoPrune(renderedBullets, prevId, currentId)) >>
  ELSE <<>>

\* --------------------------------------------------------- object identity
\* A result with identities is [nodes, same, created]: the list returned,
\* whether it is the array object that was passed in, and the ids of the
\* items whose object was created by the call.

\* mapBullets with the callback of handleUpdate
RECURSIVE mapBulletsShared(_, _, _)
mapBulletsShared(nodes, id, updates) ==
  LET each ==
        [i \in 1..Len(nodes) |->
           LET node == nodes[i]
               newNode == IF node.id = id THEN applyUpdates(node, updates) ELSE node
               newChildren == mapBulletsShared(newNode.children, id, updates)
               original == node.id # id /\ newChildren.same
           IN [node |-> IF original THEN node
                        ELSE [newNode EXCEPT !.children = newChildren.nodes],
               original |-> original,
               created |-> newChildren.created
                           \cup (IF original THEN {} ELSE {node.id})]]
      changed == \E i \in 1..Len(nodes) : ~each[i].original
  IN [nodes |-> [i \in 1..Len(nodes) |-> each[i].node],
      same |-> ~changed,
      created |-> UNION { each[i].created : i \in 1..Len(nodes) }]

\* the updater of handleUpdate in src/unnamed/part_006
handleUpdateShared(prevBullets, id, updates) ==
  LET found == findBulletAndParent(id, prevBullets) IN
  IF found # <<>> /\ NodeAt(prevBullets, found).isReadOnly
  THEN [nodes |-> prevBullets, same |-> TRUE, created |-> {}]
  ELSE mapBulletsShared(prevBullets, id, updates)

\* the updater of handleIndent in src/unnamed/part_006: it returns
\* prevBullets, or the structuredClone it has changed, in which every item
\* is a new object
handleIndentShared(prevBullets, id) ==
  LET newBullets == handleIndent(prevBullets, id) IN
  IF newBullets = prevBullets
  THEN [nodes |-> prevBullets, same |-> TRUE, created |-> {}]
  ELSE [nodes |-> newBullets, same |-> FALSE, created |-> IdSet(newBullets)]

\* ================================================================== state
VARIABLES
  bullets,            \* useState<Bullet[]>: the forest
  zoomedBulletId,     \* useState: id of the zoomed item, NoId for null
  focusOptions,       \* useState: [id, position]
  prevFocusId,        \* useRef of the auto-prune effect
  timers,             \* callbacks queued with setTimeout, oldest first
  nextId,             \* the next id crypto.randomUUID hands out
  pendingImportData,  \* useState: the payload waiting in the import modal
  variant,            \* "full" (src/unnamed/part_006), "app" (src/App.tsx)
                      \* or "old" (src/unnamed/part_005)
  steps,              \* number of handler calls so far
  lastOp,             \* history: the last step [op, id, arg] and the id that
                      \* had the focus before it
  before,             \* history: the forest before the last step
  query,              \* useState of SearchModal: the text of the search box
  linkPopupState,     \* useState: [isOpen, targetId, query, suggestions]
  input,              \* the textarea of the item [id]: its value and its
                      \* selectionStart
  identity,           \* what the last updater did to object identity:
                      \* [same, created]
  updateQueue,        \* the setBullets calls React has queued and not yet
                      \* applied, oldest first
  effectQueue,        \* the passive effects of the last commit that have
                      \* not run yet, each with the forest of its render
  store,              \* db.keyValuePairs 'bullets': [written, value]
  dataLoadedRef,      \* useRef: loadData has finished
  recentBullets,      \* useState: ids of the recent list, newest first
  favoriteBullets     \* useState: ids of the favorites list

\* the update queue, the store and the sidebar lists
sysVars == <<updateQueue, effectQueue, store, dataLoadedRef, recentBullets,
             favoriteBullets>>

\* the state of the popups and dialogs
uiVars == <<query, linkPopupState, input, identity, sysVars>>

vars == <<bullets, zoomedBulletId, focusOptions, prevFocusId, timers, nextId,
          pendingImportData, variant, steps, lastOp, before, uiVars>>

MissingId == MaxId + 1

\* no updater has run
noIdentity == [same |-> TRUE, created |-> {}]

\* no item is being edited
noInput == [id |-> NoId, value |-> <<>>, selectionStart |-> 0]

\* the link popup before its first use
closedLinkPopup ==
  [isOpen |-> FALSE, targetId |-> NoId, query |-> <<>>, suggestions |-> <<>>]

\* the store without an entry 'bullets': nothing is saved, nothing was
\* written since the app started (first is the value of the first write,
\* initial the value the app was started on)
emptyStore ==
  [saved |-> FALSE, value |-> <<>>, written |-> FALSE, first |-> <<>>,
   initial |-> <<>>]

\* the load has finished, no update and no effect is waiting and the
\* sidebar lists are empty
SysQuiet ==
  /\ updateQueue = <<>>
  /\ effectQueue = <<>>
  /\ store = emptyStore
  /\ dataLoadedRef = TRUE
  /\ recentBullets = <<>>
  /\ favoriteBullets = <<>>

\* ------------------------------------------------------------ start states
N(id, text, kids) ==
  [id |-> id, text |-> text, children |-> kids,
   isCollapsed |-> FALSE, isReadOnly |-> FALSE]

RECURSIVE ApplyFlags(_, _, _)
ApplyFlags(nodes, roSet, colSet) ==
  [i \in 1..Len(nodes) |->
     [nodes[i] EXCEPT !.isReadOnly = (nodes[i].id \in roSet),
                      !.isCollapsed = (nodes[i].id \in colSet),
                      !.children = ApplyFlags(@, roSet, colSet)]]

\* stored outlines the app is started on; ids are 1..n in pre-order
\* initialData
ShapeInitial ==
  << N(1, DAILY_LOG_ROOT_TEXT, <<>>), N(2, <<"b">>, <<>>) >>

\* a middle child with a child of its own, an earlier and a later sibling
ShapeMiddle ==
  << N(1, <<"a">>, << N(2, <<"b">>, <<>>),
                      N(3, <<>>, << N(4, <<"a">>, <<>>) >>),
                      N(5, <<"b">>, <<>>) >>) >>

\* an empty first root and a chain of three levels
ShapeDeep ==
  << N(1, <<>>, <<>>),
     N(2, <<"a">>, << N(3, <<>>, << N(4, <<"b">>, <<>>) >>) >>) >>

\* two roots with one empty child each
ShapeTwo ==
  << N(1, <<"a">>, << N(2, <<>>, <<>>) >>),
     N(3, <<"b">>, << N(4, <<>>, <<>>) >>) >>

\* the outlines with their read-only and collapsed items
StartStates ==
  { ApplyFlags(ShapeInitial, {}, {1}),
    ApplyFlags(ShapeInitial, {2}, {1}) }
  \cup { ApplyFlags(ShapeMiddle, f[1], f[2]) :
           f \in { <<{}, {}>>, <<{1}, {}>>, <<{2}, {}>>, <<{3}, {}>>,
                   <<{}, {1}>>, <<{}, {2}>>, <<{}, {3}>> } }
  \cup { ApplyFlags(ShapeDeep, f[1], f[2]) :
           f \in { <<{}, {}>>, <<{2}, {}>>, <<{3}, {}>>, <<{}, {2, 3}>> } }
  \cup { ApplyFlags(ShapeTwo, f[1], f[2]) :
           f \in { <<{}, {}>>, <<{1}, {}>>, <<{}, {1}>>, <<{}, {1, 3}>> } }

\* outlines the app is in after a zoom into an item that has children:
\* <<outline, zoomedBulletId>>
ZoomedStarts ==
  { << ApplyFlags(ShapeMiddle, {}, {3}), 1 >>,
    << ApplyFlags(ShapeMiddle, {}, {}), 3 >>,
    << ApplyFlags(ShapeDeep, {}, {}), 2 >>,
    << ApplyFlags(ShapeDeep, {}, {3}), 2 >> }

StartViews == { << b, NoId >> : b \in StartStates } \cup ZoomedStarts

Init ==
  /\ \E v \in StartViews : bullets = v[1] /\ zoomedBulletId = v[2]
  /\ variant \in {"full", "app", "old"}
  /\ focusOptions = [id |-> visibleBulletIds(bullets, zoomedBulletId)[1],
                     position |-> PosEnd]
  /\ prevFocusId = focusOptions.id
  /\ timers = <<>>
  /\ nextId = CountNodes(bullets) + 1
  /\ pendingImportData = <<>>
  /\ steps = 0
  /\ lastOp = [op |-> "init", id |-> NoId, arg |-> NoId, focus |-> NoId]
  /\ before = bullets
  /\ query = <<>>
  /\ linkPopupState = closedLinkPopup
  /\ input = noInput
  /\ identity = noIdentity
  /\ SysQuiet

\* ================================================================ actions
FocusReq(id, position) == [kind |-> "focus", id |-> id, position |-> position]

\* the render after a handler or a timer callback: the new state is
\* committed and the auto-prune effect runs on it
Render(newBullets, newFocus) ==
  /\ bullets' = autoPrune(newBullets, prevFocusId, newFocus.id)
  /\ focusOptions' = newFocus
  /\ prevFocusId' = newFocus.id

\* a handler is called by the user: no timer callback is waiting and the
\* import modal is closed
Call(op, id, arg) ==
  /\ variant \in {"full", "app"}
  /\ timers = <<>>
  /\ pendingImportData = <<>>
  /\ steps < MaxSteps
  /\ steps' = steps + 1
  /\ lastOp' = [op |-> op, id |-> id, arg |-> arg, focus |-> focusOptions.id]
  /\ before' = bullets
  /\ UNCHANGED uiVars

ArgIds == IdSet(bullets) \cup {MissingId}

Update(id, updates) ==
  /\ Call("update", id, updates)
  /\ Render(IF variant = "full" THEN handleUpdate(bullets, id, updates)
            ELSE handleUpdateApp(bullets, id, updates), focusOptions)
  /\ UNCHANGED <<zoomedBulletId, timers, nextId, pendingImportData, variant>>

AddSibling(id, text) ==
  /\ Call("addSibling", id, text)
  /\ nextId <= MaxId
  /\ IF variant = "full"
     THEN /\ Render(handleAddSibling(bullets, id, createNewBullet(nextId, text)),
                    focusOptions)
          /\ timers' = << FocusReq(nextId, PosEnd) >>
          /\ nextId' = nextId + 1
     ELSE IF findBulletAndParent(id, bullets) # <<>>
     THEN /\ Render(handleAddSiblingApp(bullets, id, createNewBullet(nextId, text)),
                    focusOptions)
          /\ timers' = << FocusReq(nextId, PosStart) >>
          /\ nextId' = nextId + 1
     ELSE /\ Render(bullets, focusOptions)
          /\ UNCHANGED <<timers, nextId>>
  /\ UNCHANGED <<zoomedBulletId, pendingImportData, variant>>

Delete(id) ==
  /\ Call("delete", id, NoId)
  /\ IF variant = "full"
     THEN /\ Render(handleDelete(bullets, id), focusOptions)
          /\ timers' = << FocusReq(deletePrevSiblingId(bullets, id), PosEnd) >>
     ELSE /\ Render(handleDeleteApp(bullets, id), focusOptions)
          /\ timers' = deleteFocusApp(bullets, id, NoId, 1)
  /\ UNCHANGED <<zoomedBulletId, nextId, pendingImportData, variant>>

\* the merged text stays within MaxTextLen
MergeFits(id) ==
  LET found == findBulletAndParent(id, bullets) IN
  found # <<>> /\ Last(found) > 1 =>
    Len(ListAt(bullets, Front(found))[Last(found) - 1].text)
      + Len(NodeAt(bullets, found).text) <= MaxTextLen

Merge(id) ==
  /\ Call("merge", id, NoId)
  /\ MergeFits(id)
  /\ IF variant = "full"
     THEN /\ Render(handleMerge(bullets, id), focusOptions)
          /\ timers' = mergeFocus(bullets, id)
     ELSE /\ Render(handleMergeApp(bullets, id), focusOptions)
          /\ timers' = mergeFocusApp(bullets, id, 1)
  /\ UNCHANGED <<zoomedBulletId, nextId, pendingImportData, variant>>

Indent(id) ==
  /\ Call("indent", id, NoId)
  /\ IF variant = "full"
     THEN /\ Render(handleIndent(bullets, id), focusOptions)
          /\ timers' = << FocusReq(id, PosEnd) >>
     ELSE /\ Render(handleIndentApp(bullets, id), focusOptions)
          /\ timers' = <<>>
  /\ UNCHANGED <<zoomedBulletId, nextId, pendingImportData, variant>>

Outdent(id) ==
  /\ Call("outdent", id, NoId)
  /\ IF variant = "full"
     THEN /\ Render(handleOutdent(bullets, id), focusOptions)
          /\ timers' = << FocusReq(id, PosEnd) >>
     ELSE /\ Render(handleOutdentApp(bullets, id), focusOptions)
          /\ timers' = <<>>
  /\ UNCHANGED <<zoomedBulletId, nextId, pendingImportData, variant>>

FoldAll(id, collapse) ==
  /\ Call("foldAll", id, collapse)
  /\ Render(IF variant = "full" THEN handleFoldAll(bullets, id, collapse)
            ELSE handleFoldAllApp(bullets, id, collapse), focusOptions)
  /\ UNCHANGED <<zoomedBulletId, timers, nextId, pendingImportData, variant>>

MoveBullet(id, direction) ==
  /\ Call("move", id, direction)
  /\ Render(IF variant = "full" THEN handleMoveBullet(bullets, id, direction)
            ELSE handleMoveBulletApp(bullets, id, direction), focusOptions)
  /\ UNCHANGED <<zoomedBulletId, timers, nextId, pendingImportData, variant>>

\* handleFocusChange called from a click on an item of the view
FocusChange(id) ==
  /\ Call("focus", id, NoId)
  /\ Render(bullets, [id |-> id, position |-> PosEnd])
  /\ UNCHANGED <<zoomedBulletId, timers, nextId, pendingImportData, variant>>

Zoom(id) ==
  LET oldZoomedBulletId == zoomedBulletId
      isZoomingOut == \/ (id = NoId /\ oldZoomedBulletId # NoId)
                      \/ (id # NoId /\ id \in breadcrumbs(bullets, zoomedBulletId))
      found == findBulletAndParent(id, bullets)
  IN
  /\ Call("zoom", id, NoId)
  /\ IF id = NoId THEN
       /\ zoomedBulletId' = NoId
       /\ IF oldZoomedBulletId # NoId
          THEN /\ timers' = << FocusReq(oldZoomedBulletId, PosEnd) >>
               /\ Render(bullets, focusOptions)
          ELSE /\ timers' = <<>>
               /\ Render(bullets,
                    IF Len(getVisibleIds(bullets)) > 0
                    THEN [id |-> getVisibleIds(bullets)[1], position |-> PosEnd]
                    ELSE focusOptions)
       /\ UNCHANGED nextId
     ELSE IF found # <<>> /\ Len(NodeAt(bullets, found).children) = 0
             /\ ~NodeAt(bullets, found).isReadOnly THEN
       /\ nextId <= MaxId
       /\ Render(zoomAddChild(bullets, id, createNewBullet(nextId, <<>>)),
                 focusOptions)
       /\ zoomedBulletId' = id
       /\ timers' = << FocusReq(nextId, PosEnd) >>
       /\ nextId' = nextId + 1
     ELSE IF found # <<>> THEN
       /\ zoomedBulletId' = id
       /\ IF isZoomingOut /\ oldZoomedBulletId # NoId
          THEN /\ timers' = << FocusReq(oldZoomedBulletId, PosEnd) >>
               /\ Render(bullets, focusOptions)
          ELSE /\ timers' = <<>>
               /\ Render(bullets,
                    IF Len(NodeAt(bullets, found).children) > 0
                    THEN [id |-> getVisibleIds(NodeAt(bullets, found).children)[1],
                          position |-> PosEnd]
                    ELSE focusOptions)
       /\ UNCHANGED nextId
     ELSE
       /\ Render(bullets, focusOptions)
       /\ UNCHANGED <<zoomedBulletId, timers, nextId>>
  /\ UNCHANGED <<pendingImportData, variant>>

GoToJournal ==
  LET result == ensureJournalPath(bullets, nextId)
      path == findBulletAndParent(result.dayId, bullets)
  IN
  /\ Call("journal", NoId, NoId)
  /\ result.nid - 1 <= MaxId
  /\ nextId' = result.nid
  /\ Render(result.nodes, focusOptions)
  /\ IF variant = "full"
     THEN /\ timers' = << [kind |-> "journal", id |-> result.dayId,
                           monthId |-> result.monthId] >>
          /\ UNCHANGED zoomedBulletId
     ELSE \* handleNavigate(dayNode.id) looks the day up in the forest of
          \* the render the handler was created in
          IF path # <<>>
          THEN /\ zoomedBulletId' = IF Len(path) > 1 THEN NodeAt(bullets, Front(path)).id
                                    ELSE NoId
               /\ timers' = << FocusReq(result.dayId, PosEnd) >>
          ELSE UNCHANGED <<zoomedBulletId, timers>>
  /\ UNCHANGED <<pendingImportData, variant>>

\* files the user picks in the import dialog
Payloads ==
  { << N(1, <<"a">>, <<>>) >>,
    << N(2, <<"b">>, << N(1, <<>>, <<>>) >>) >> }

HandleImport(data) ==
  /\ variant \in {"full", "app"}
  /\ timers = <<>>
  /\ pendingImportData = <<>>
  /\ steps < MaxSteps
  /\ pendingImportData' = data
  /\ UNCHANGED <<bullets, zoomedBulletId, focusOptions, prevFocusId, timers,
                 nextId, variant, steps, lastOp, before, uiVars>>

ConfirmImport(targetId) ==
  LET nodesToImport == regenerateIds(migrateBullets(pendingImportData), nextId) IN
  /\ pendingImportData # <<>>
  /\ nextId + CountNodes(pendingImportData) - 1 <= MaxId
  /\ steps' = steps + 1
  /\ lastOp' = [op |-> "import", id |-> targetId, arg |-> pendingImportData,
                focus |-> focusOptions.id]
  /\ before' = bullets
  /\ nextId' = nextId + CountNodes(pendingImportData)
  /\ Render(IF variant = "full"
            THEN handleConfirmImport(bullets, targetId, nodesToImport)
            ELSE handleConfirmImportApp(bullets, targetId, nodesToImport),
            focusOptions)
  /\ pendingImportData' = <<>>
  /\ UNCHANGED <<zoomedBulletId, timers, variant, uiVars>>

\* handleImport of src/unnamed/part_005: the file replaces the outline at
\* once and the zoom is reset
HandleImportOld(data) ==
  /\ variant = "old"
  /\ timers = <<>>
  /\ steps < MaxSteps
  /\ steps' = steps + 1
  /\ lastOp' = [op |-> "importFile", id |-> NoId, arg |-> data,
                focus |-> focusOptions.id]
  /\ before' = bullets
  /\ Render(migrateBullets(data), focusOptions)
  /\ zoomedBulletId' = NoId
  /\ UNCHANGED <<timers, nextId, pendingImportData, variant, uiVars>>

\* a focus handler hands target to handleFocusChange, or does not call it
FocusTo(target, position) ==
  IF target # NoId THEN Render(bullets, [id |-> target, position |-> position])
  ELSE Render(bullets, focusOptions)

FocusMove(direction, position) ==
  /\ Call("focusMove", NoId, direction)
  /\ FocusTo(IF variant = "full"
             THEN handleFocusMove(visibleBulletIds(bullets, zoomedBulletId),
                                  focusOptions.id, direction)
             ELSE handleFocusMoveApp(getFlatVisibleBullets(bullets, zoomedBulletId),
                                     focusOptions.id, direction),
             position)
  /\ UNCHANGED <<zoomedBulletId, timers, nextId, pendingImportData, variant>>

FocusParent(id) ==
  /\ Call("focusParent", id, NoId)
  /\ FocusTo(IF variant = "full" THEN handleFocusParent(bullets, zoomedBulletId, id)
             ELSE handleFocusParentApp(bullets, id),
             PosEnd)
  /\ UNCHANGED <<zoomedBulletId, timers, nextId, pendingImportData, variant>>

FocusChild(id) ==
  /\ Call("focusChild", id, NoId)
  /\ FocusTo(IF variant = "full" THEN handleFocusChild(bullets, id)
             ELSE handleFocusChildApp(bullets, id),
             PosStart)
  /\ UNCHANGED <<zoomedBulletId, timers, nextId, pendingImportData, variant>>

\* the oldest setTimeout callback runs
FireTimer ==
  /\ timers # <<>>
  /\ Head(timers).kind # "caret"
  /\ lastOp' = [op |-> IF Head(timers).kind = "focus" THEN "timer" ELSE "timerJournal",
                id |-> Head(timers).id,
                arg |-> IF Head(timers).kind = "focus" THEN Head(timers).position
                        ELSE Head(timers).monthId,
                focus |-> focusOptions.id]
  /\ before' = bullets
  /\ IF Head(timers).kind = "focus"
     THEN /\ Render(bullets, [id |-> Head(timers).id, position |-> Head(timers).position])
          /\ timers' = Tail(timers)
          /\ UNCHANGED zoomedBulletId
     ELSE /\ zoomedBulletId' = Head(timers).monthId
          /\ timers' = Tail(timers) \o << FocusReq(Head(timers).id, PosEnd) >>
          /\ Render(bullets, focusOptions)
  /\ UNCHANGED <<nextId, pendingImportData, variant, steps, uiVars>>

UpdateInputs ==
  { [key |-> "text", value |-> t] : t \in Texts }
  \cup { [key |-> "isCollapsed", value |-> c] : c \in BOOLEAN }

Next ==
  \/ \E id \in ArgIds, updates \in UpdateInputs : Update(id, updates)
  \/ \E id \in ArgIds, text \in Texts : AddSibling(id, text)
  \/ \E id \in ArgIds : Delete(id)
  \/ \E id \in ArgIds : Merge(id)
  \/ \E id \in ArgIds : Indent(id)
  \/ \E id \in ArgIds : Outdent(id)
  \/ \E id \in ArgIds, collapse \in BOOLEAN : FoldAll(id, collapse)
  \/ \E id \in ArgIds, direction \in {"up", "down"} : MoveBullet(id, direction)
  \/ \E id \in IdSet(bullets) \cup {NoId} : FocusChange(id)
  \/ \E id \in ArgIds \cup {NoId} : Zoom(id)
  \/ GoToJournal
  \/ \E data \in Payloads : HandleImport(data)
  \/ \E targetId \in ArgIds \cup {NoId} : ConfirmImport(targetId)
  \/ \E data \in Payloads : HandleImportOld(data)
  \/ \E direction \in {"up", "down"}, position \in {PosEnd, PosStart} :
       FocusMove(direction, position)
  \/ \E id \in ArgIds : FocusParent(id)
  \/ \E id \in ArgIds : FocusChild(id)
  \/ FireTimer

Spec == Init /\ [][Next]_vars

\* ------------------------------------------------- the search box in use
\* outlines with texts to search in: <<outline, zoomedBulletId>>
ShapeSearch ==
  << N(1, <<"a">>, << N(2, <<"a", "b">>, << N(3, <<"c">>, <<>>) >>),
                      N(4, <<"B">>, <<>>) >>),
     N(5, <<"o", "r", "b">>, <<>>) >>

SearchViews ==
  { << ApplyFlags(ShapeSearch, {}, {}), NoId >>,
    << ApplyFlags(ShapeSearch, {}, {2}), 1 >> }

SearchInit ==
  /\ \E v \in SearchViews : bullets = v[1] /\ zoomedBulletId = v[2]
  /\ variant \in {"full", "app", "old"}
  /\ focusOptions = [id |-> visibleBulletIds(bullets, zoomedBulletId)[1],
                     position |-> PosEnd]
  /\ prevFocusId = focusOptions.id
  /\ timers = <<>>
  /\ nextId = CountNodes(bullets) + 1
  /\ pendingImportData = <<>>
  /\ steps = 0
  /\ lastOp = [op |-> "init", id |-> NoId, arg |-> NoId, focus |-> NoId]
  /\ before = bullets
  /\ query = <<>>
  /\ linkPopupState = closedLinkPopup
  /\ input = noInput
  /\ identity = noIdentity
  /\ SysQuiet

\* the words the user types into the search box
QueryTerms ==
  { <<"a">>, <<"b">>, <<"c">>, <<"A">>, <<"o", "r">>, <<"O", "R">> }

RECURSIVE JoinTerms(_)
JoinTerms(terms) ==
  IF terms = <<>> THEN <<>>
  ELSE IF Len(terms) = 1 THEN terms[1]
  ELSE terms[1] \o <<" ">> \o JoinTerms(Tail(terms))

Queries ==
  { JoinTerms(ts) : ts \in UNION { [1..n -> QueryTerms] : n \in 0..MaxQueryTerms } }
  \cup { <<" ">>, <<"\t", "a", "\n">>, <<" ", "O", "R", " ">>,
         <<"a", " ", "\t", "O", "r", "\n", "c">> }

\* the search box is opened, which empties it, and the user enters q
SetQuery(q) ==
  /\ query = <<>>
  /\ ~linkPopupState.isOpen
  /\ query' = q
  /\ UNCHANGED <<bullets, zoomedBulletId, focusOptions, prevFocusId, timers,
                 nextId, pendingImportData, variant, steps, lastOp, before,
                 linkPopupState, input, identity, sysVars>>

\* the text the user has typed behind [[ in an item
RECURSIVE StringsUpTo(_)
StringsUpTo(n) ==
  IF n = 0 THEN { <<>> }
  ELSE StringsUpTo(n - 1)
       \cup { Append(t, c) : t \in StringsUpTo(n - 1),
                             c \in {"a", "b", "c", "A", "o"} }

LinkQueries == StringsUpTo(MaxTextLen)

\* handleTriggerLinkPopup, called by handleTextChange of the item bulletId
\* while the search box is closed
TriggerLinkPopup(bulletId, q) ==
  /\ query = <<>>
  /\ ~linkPopupState.isOpen
  /\ linkPopupState' =
       [isOpen |-> TRUE, targetId |-> bulletId, query |-> q,
        suggestions |-> IF variant = "app"
                        THEN suggestionsOfApp(bullets, bulletId, q)
                        ELSE suggestionsOf(bullets, bulletId, q)]
  /\ UNCHANGED <<bullets, zoomedBulletId, focusOptions, prevFocusId, timers,
                 nextId, pendingImportData, variant, steps, lastOp, before,
                 query, input, identity, sysVars>>

SearchNext ==
  \/ \E q \in Queries : SetQuery(q)
  \/ \E bulletId \in IdSet(bullets), q \in LinkQueries :
       TriggerLinkPopup(bulletId, q)

SearchSpec == SearchInit /\ [][SearchNext]_vars

\* ---------------------------------------------------- an item being edited
\* the texts of the edited item
RECURSIVE EditStrings(_)
EditStrings(n) ==
  IF n = 0 THEN { <<>> }
  ELSE EditStrings(n - 1)
       \cup { Append(t, c) : t \in EditStrings(n - 1),
                             c \in {"a", " ", "\t", "\n", "#"} }

EditTexts == EditStrings(MaxEditLen)

\* the outlines around the edited item 1: it is a leaf or has a child
EditShapes(t) ==
  { << N(1, t, <<>>), N(2, <<"b">>, <<>>) >>,
    << N(1, t, << N(2, <<"b">>, <<>>) >>), N(3, <<"c">>, <<>>) >> }

\* item 1 has the focus and the caret is anywhere in its text
EditInit ==
  /\ \E t \in EditTexts :
       /\ bullets \in EditShapes(t)
       /\ \E k \in 0..Len(t) : input = [id |-> 1, value |-> t, selectionStart |-> k]
  /\ zoomedBulletId = NoId
  /\ variant \in {"full", "app", "old"}
  /\ focusOptions = [id |-> 1, position |-> PosEnd]
  /\ prevFocusId = focusOptions.id
  /\ timers = <<>>
  /\ nextId = CountNodes(bullets) + 1
  /\ pendingImportData = <<>>
  /\ steps = 0
  /\ lastOp = [op |-> "init", id |-> NoId, arg |-> NoId, focus |-> NoId]
  /\ before = bullets
  /\ query = <<>>
  /\ linkPopupState = closedLinkPopup
  /\ identity = noIdentity
  /\ SysQuiet

\* a key or a popup choice is handled by the item being edited
Edit(op, arg) ==
  /\ input.id # NoId
  /\ focusOptions.id = input.id
  /\ findBulletAndParent(input.id, bullets) # <<>>
  /\ timers = <<>>
  /\ steps < MaxSteps
  /\ steps' = steps + 1
  /\ lastOp' = [op |-> op, id |-> input.id,
                arg |-> [arg |-> arg, value |-> input.value,
                         cursor |-> input.selectionStart],
                focus |-> focusOptions.id]
  /\ before' = bullets
  /\ UNCHANGED <<zoomedBulletId, pendingImportData, variant, query,
                 linkPopupState, identity, sysVars>>

\* the textarea after a render: it shows the text of its item, and the
\* browser leaves the caret at the end of a value that was replaced
Shown(nodes, caret) ==
  LET found == findBulletAndParent(input.id, nodes) IN
  IF found = <<>> THEN input
  ELSE IF NodeAt(nodes, found).text = input.value
  THEN [input EXCEPT !.selectionStart = caret]
  ELSE [input EXCEPT !.value = NodeAt(nodes, found).text,
                     !.selectionStart = Len(NodeAt(nodes, found).text)]

\* tags of the outline the tag popup offers
Tags == { <<"#", "a">>, <<"#", "a", "b">> }

\* handleTagSelection: a tag of the popup is chosen
TagSelection(selectedTag) ==
  LET r == handleTagSelection(input.value, input.selectionStart, selectedTag)
      updates == [key |-> "text", value |-> r.text]
      newBullets == IF variant = "full" THEN handleUpdate(bullets, input.id, updates)
                    ELSE IF variant = "app"
                    THEN handleUpdateApp(bullets, input.id, updates)
                    ELSE handleUpdateOld(bullets, bullets, input.id, updates)
  IN
  /\ Edit("tagSelection", selectedTag)
  /\ IF r.changed
     THEN /\ Render(newBullets, focusOptions)
          /\ input' = Shown(newBullets, input.selectionStart)
          /\ timers' = << [kind |-> "caret", id |-> input.id, position |-> r.cursor] >>
     ELSE /\ Render(bullets, focusOptions)
          /\ UNCHANGED <<input, timers>>
  /\ UNCHANGED nextId

\* the setTimeout callback of handleTagSelection: setSelectionRange
CaretTimer ==
  /\ timers # <<>>
  /\ Head(timers).kind = "caret"
  /\ input' = [input EXCEPT !.selectionStart = Head(timers).position]
  /\ timers' = Tail(timers)
  /\ lastOp' = [lastOp EXCEPT !.op = "caret"]
  /\ UNCHANGED <<bullets, zoomedBulletId, focusOptions, prevFocusId, nextId,
                 pendingImportData, variant, steps, before, query,
                 linkPopupState, identity, sysVars>>

\* handleTextKeyDown: Enter without Shift in the item being edited
EnterKey ==
  LET found == findBulletAndParent(input.id, bullets)
      newBullets ==
        IF variant = "old"
        THEN enterSplitOld(bullets, input.id, input.value, input.selectionStart, nextId)
        ELSE enterSplit(bullets, input.id, input.value, input.selectionStart,
                        nextId, variant = "app")
  IN
  /\ Edit("enter", NoId)
  /\ nextId <= MaxId
  /\ nextId' = nextId + 1
  /\ input' = Shown(newBullets, input.selectionStart)
  /\ IF variant = "old"
     THEN /\ timers' = <<>>
          /\ Render(newBullets,
                    IF found # <<>> /\ ~NodeAt(bullets, found).isReadOnly
                    THEN [id |-> nextId, position |-> PosEnd]
                    ELSE focusOptions)
     ELSE /\ timers' = << FocusReq(nextId, IF variant = "app" THEN PosStart ELSE PosEnd) >>
          /\ Render(newBullets, focusOptions)

EditNext ==
  \/ \E selectedTag \in Tags : TagSelection(selectedTag)
  \/ CaretTimer
  \/ EnterKey
  \/ FireTimer

EditSpec == EditInit /\ [][EditNext]_vars

\* ------------------------------------------ updaters and object identity
\* src/unnamed/part_006 on the stored outlines
ShareInit ==
  /\ bullets \in StartStates
  /\ zoomedBulletId = NoId
  /\ variant = "full"
  /\ focusOptions = [id |-> visibleBulletIds(bullets, zoomedBulletId)[1],
                     position |-> PosEnd]
  /\ prevFocusId = focusOptions.id
  /\ timers = <<>>
  /\ nextId = CountNodes(bullets) + 1
  /\ pendingImportData = <<>>
  /\ steps = 0
  /\ lastOp = [op |-> "init", id |-> NoId, arg |-> NoId, focus |-> NoId]
  /\ before = bullets
  /\ query = <<>>
  /\ linkPopupState = closedLinkPopup
  /\ input = noInput
  /\ identity = noIdentity
  /\ SysQuiet

\* an updater runs and its result is rendered
Share(op, id, arg, result) ==
  /\ timers = <<>>
  /\ steps < MaxSteps
  /\ steps' = steps + 1
  /\ lastOp' = [op |-> op, id |-> id, arg |-> arg, focus |-> focusOptions.id]
  /\ before' = bullets
  /\ Render(result.nodes, focusOptions)
  /\ identity' = [same |-> result.same, created |-> result.created]
  /\ UNCHANGED <<zoomedBulletId, nextId, pendingImportData, variant, query,
                 linkPopupState, input, sysVars>>

ShareUpdate(id, updates) ==
  /\ Share("update", id, updates, handleUpdateShared(bullets, id, updates))
  /\ UNCHANGED timers

ShareIndent(id) ==
  /\ Share("indent", id, NoId, handleIndentShared(bullets, id))
  /\ timers' = << FocusReq(id, PosEnd) >>

ShareNext ==
  \/ \E id \in ArgIds, updates \in UpdateInputs : ShareUpdate(id, updates)
  \/ \E id \in ArgIds : ShareIndent(id)
  \/ FireTimer

ShareSpec == ShareInit /\ [][ShareNext]_vars

\* --------------------------------------------- recent list and favorites
\* The handlers of src/unnamed/part_006 together with what they do to the
\* two sidebar lists.
ListInit ==
  /\ \E v \in StartViews : bullets = v[1] /\ zoomedBulletId = v[2]
  /\ variant = "full"
  /\ focusOptions = [id |-> visibleBulletIds(bullets, zoomedBulletId)[1],
                     position |-> PosEnd]
  /\ prevFocusId = focusOptions.id
  /\ timers = <<>>
  /\ nextId = CountNodes(bullets) + 1
  /\ pendingImportData = <<>>
  /\ steps = 0
  /\ lastOp = [op |-> "init", id |-> NoId, arg |-> NoId, focus |-> NoId]
  /\ before = bullets
  /\ query = <<>>
  /\ linkPopupState = closedLinkPopup
  /\ input = noInput
  /\ identity = noIdentity
  /\ updateQueue = <<>>
  /\ effectQueue = <<>>
  /\ store = emptyStore
  /\ dataLoadedRef = TRUE
  \* the lists loadData read from the store: every item was touched, or none
  /\ recentBullets \in {<<>>, AllIds(bullets)}
  /\ favoriteBullets \in {<<>>} \cup { <<id>> : id \in IdSet(bullets) }

\* the render after a handler that left the lists as recents and favorites:
\* the auto-prune effect removes the pruned item from both
ListRender(newBullets, newFocus, recents, favorites) ==
  LET pruned == autoPrune(newBullets, prevFocusId, newFocus.id) # newBullets IN
  /\ Render(newBullets, newFocus)
  /\ recentBullets' = IF pruned THEN removeFromRecentList(recents, prevFocusId)
                      ELSE recents
  /\ favoriteBullets' = IF pruned THEN removeFromRecentList(favorites, prevFocusId)
                        ELSE favorites

ListCall(op, id, arg) ==
  /\ timers = <<>>
  /\ pendingImportData = <<>>
  /\ steps < MaxSteps
  /\ steps' = steps + 1
  /\ lastOp' = [op |-> op, id |-> id, arg |-> arg, focus |-> focusOptions.id]
  /\ before' = bullets
  /\ UNCHANGED <<zoomedBulletId, pendingImportData, variant, query,
                 linkPopupState, input, identity, updateQueue, effectQueue,
                 store, dataLoadedRef>>

ListAddSibling(id, text) ==
  /\ ListCall("addSibling", id, text)
  /\ nextId <= MaxId
  /\ ListRender(handleAddSibling(bullets, id, createNewBullet(nextId, text)),
                focusOptions,
                updateRecentList(recentBullets, nextId, TRUE), favoriteBullets)
  /\ timers' = << FocusReq(nextId, PosEnd) >>
  /\ nextId' = nextId + 1

ListDelete(id) ==
  /\ ListCall("delete", id, NoId)
  /\ ListRender(handleDelete(bullets, id), focusOptions,
                removeFromRecentList(recentBullets, id),
                removeFromRecentList(favoriteBullets, id))
  /\ timers' = << FocusReq(deletePrevSiblingId(bullets, id), PosEnd) >>
  /\ UNCHANGED nextId

ListMerge(id) ==
  LET found == findBulletAndParent(id, bullets)
      merged == handleMerge(bullets, id) # bullets
      recents == removeFromRecentList(recentBullets, id)
  IN
  /\ ListCall("merge", id, NoId)
  /\ MergeFits(id)
  /\ ListRender(handleMerge(bullets, id), focusOptions,
                IF ~merged THEN recentBullets
                ELSE IF Last(found) > 1
                THEN updateRecentList(recents,
                       ListAt(bullets, Front(found))[Last(found) - 1].id, TRUE)
                ELSE recents,
                IF merged THEN removeFromRecentList(favoriteBullets, id)
                ELSE favoriteBullets)
  /\ timers' = mergeFocus(bullets, id)
  /\ UNCHANGED nextId

ListFocusChange(id) ==
  /\ ListCall("focus", id, NoId)
  /\ ListRender(bullets, [id |-> id, position |-> PosEnd],
                recentBullets, favoriteBullets)
  /\ UNCHANGED <<timers, nextId>>

ListConfirmImport(targetId) ==
  LET nodesToImport == regenerateIds(migrateBullets(pendingImportData), nextId) IN
  /\ pendingImportData # <<>>
  /\ nextId + CountNodes(pendingImportData) - 1 <= MaxId
  /\ steps' = steps + 1
  /\ lastOp' = [op |-> "import", id |-> targetId, arg |-> pendingImportData,
                focus |-> focusOptions.id]
  /\ before' = bullets
  /\ nextId' = nextId + CountNodes(pendingImportData)
  /\ ListRender(handleConfirmImport(bullets, targetId, nodesToImport),
                focusOptions,
                importedRecents(recentBullets, nodesToImport), favoriteBullets)
  /\ pendingImportData' = <<>>
  /\ UNCHANGED <<zoomedBulletId, timers, variant, query, linkPopupState,
                 input, identity, updateQueue, effectQueue, store,
                 dataLoadedRef>>

\* the oldest setTimeout callback, a focus request, runs
ListTimer ==
  /\ timers # <<>>
  /\ Head(timers).kind = "focus"
  /\ lastOp' = [op |-> "timer", id |-> Head(timers).id,
                arg |-> Head(timers).position, focus |-> focusOptions.id]
  /\ before' = bullets
  /\ ListRender(bullets, [id |-> Head(timers).id, position |-> Head(timers).position],
                recentBullets, favoriteBullets)
  /\ timers' = Tail(timers)
  /\ UNCHANGED <<zoomedBulletId, nextId, pendingImportData, variant, steps,
                 query, linkPopupState, input, identity, updateQueue,
                 effectQueue, store, dataLoadedRef>>

ListNext ==
  \/ \E id \in ArgIds, text \in Texts : ListAddSibling(id, text)
  \/ \E id \in ArgIds : ListDelete(id)
  \/ \E id \in ArgIds : ListMerge(id)
  \/ \E id \in ArgIds : ListFocusChange(id)
  \/ \E data \in Payloads : HandleImport(data)
  \/ \E targetId \in ArgIds \cup {NoId} : ListConfirmImport(targetId)
  \/ ListTimer

ListSpec == ListInit /\ [][ListNext]_vars

\* ------------------------------------------- queued updates, load and save
\* src/unnamed/part_006 with the update queue of React made explicit:
\* handlers queue updates, Rerender applies them, the effects of a render
\* run after it.  steps counts the renders.
MaxQueue == 2

\* initialData: the journal root, collapsed, and the help item
initialData == ApplyFlags(ShapeInitial, {}, {1})

\* what loadData hands to setBullets
initialLoadData(entry) ==
  migrateBullets(IF entry.saved THEN entry.value ELSE initialData)

\* an outline saved by an earlier run; its ids are not those of initialData
SavedOutline == << N(3, <<"b">>, << N(4, <<>>, <<>>) >>) >>

\* the app with its outline loaded and saved, or started while loadData is
\* still waiting for the store
QueueInit ==
  /\ variant = "full"
  /\ \/ /\ bullets \in {ShapeDeep, ShapeTwo}
        /\ dataLoadedRef = TRUE
        /\ store = [saved |-> TRUE, value |-> bullets, written |-> FALSE,
                    first |-> <<>>, initial |-> bullets]
     \/ /\ bullets = initialData
        /\ dataLoadedRef = FALSE
        /\ \/ store = [saved |-> TRUE, value |-> SavedOutline, written |-> FALSE,
                       first |-> <<>>, initial |-> SavedOutline]
           \/ store = emptyStore
  /\ zoomedBulletId = NoId
  /\ focusOptions = [id |-> bullets[1].id, position |-> PosEnd]
  /\ prevFocusId = focusOptions.id
  /\ timers = <<>>
  /\ nextId = 5
  /\ pendingImportData = <<>>
  /\ steps = 0
  /\ lastOp = [op |-> "init", id |-> NoId, arg |-> NoId, focus |-> NoId]
  /\ before = bullets
  /\ query = <<>>
  /\ linkPopupState = closedLinkPopup
  /\ input = noInput
  /\ identity = noIdentity
  /\ updateQueue = <<>>
  /\ effectQueue = <<>>
  /\ recentBullets = <<>>
  /\ favoriteBullets = <<>>

\* a handler or a callback runs between two renders
QueueCall ==
  /\ steps < MaxSteps
  /\ Len(updateQueue) < MaxQueue
  /\ UNCHANGED <<bullets, zoomedBulletId, focusOptions, prevFocusId, variant,
                 steps, lastOp, before, query, linkPopupState, input, identity,
                 effectQueue, store, recentBullets, favoriteBullets>>

QueueAddSibling(id, text) ==
  /\ QueueCall
  /\ nextId <= MaxId
  /\ updateQueue' = Append(updateQueue,
                           fnUpdate("addSibling", id, createNewBullet(nextId, text)))
  /\ timers' = Append(timers, FocusReq(nextId, PosEnd))
  /\ nextId' = nextId + 1
  /\ UNCHANGED <<pendingImportData, dataLoadedRef>>

\* handleImport opens the import modal; the render that shows it has
\* applied every update queued before
QueueHandleImport(data) ==
  /\ QueueCall
  /\ updateQueue = <<>>
  /\ pendingImportData = <<>>
  /\ pendingImportData' = data
  /\ UNCHANGED <<updateQueue, timers, nextId, dataLoadedRef>>

QueueConfirmImport(targetId) ==
  LET nodesToImport == regenerateIds(migrateBullets(pendingImportData), nextId) IN
  /\ QueueCall
  /\ pendingImportData # <<>>
  /\ nextId + CountNodes(pendingImportData) - 1 <= MaxId
  /\ nextId' = nextId + CountNodes(pendingImportData)
  /\ updateQueue' = updateQueue \o importUpdates(bullets, targetId, nodesToImport)
  /\ pendingImportData' = <<>>
  /\ UNCHANGED <<timers, dataLoadedRef>>

\* the oldest setTimeout callback, a focus request, runs
QueueTimer ==
  /\ QueueCall
  /\ timers # <<>>
  /\ updateQueue' = Append(updateQueue,
                           focusUpdate(Head(timers).id, Head(timers).position))
  /\ timers' = Tail(timers)
  /\ UNCHANGED <<nextId, pendingImportData, dataLoadedRef>>

\* loadData gets the entry of the store and finishes
LoadData ==
  /\ QueueCall
  /\ ~dataLoadedRef
  /\ updateQueue' = Append(updateQueue,
                           setUpdate("load", NoId, NoId, initialLoadData(store)))
  /\ dataLoadedRef' = TRUE
  /\ UNCHANGED <<timers, nextId, pendingImportData>>

\* React renders: the queued updates are applied and the effects whose
\* dependencies changed are scheduled with the values of this render
Rerender ==
  LET newBullets == processUpdateQueue(bullets, updateQueue)
      newFocus == processFocusQueue(focusOptions, updateQueue)
      written == \E i \in 1..Len(updateQueue) : updateQueue[i].kind # "focus"
      effect(name) == [effect |-> name, bullets |-> newBullets,
                       currentId |-> newFocus.id]
  IN
  /\ updateQueue # <<>>
  /\ effectQueue = <<>>
  /\ steps < MaxSteps
  /\ steps' = steps + 1
  /\ lastOp' = [op |-> "render", id |-> NoId, arg |-> updateQueue,
                focus |-> focusOptions.id]
  /\ before' = bullets
  /\ bullets' = newBullets
  /\ focusOptions' = newFocus
  /\ updateQueue' = <<>>
  /\ effectQueue' = (IF written THEN << effect("save") >> ELSE <<>>)
                     \o << effect("prune") >>
  /\ UNCHANGED <<zoomedBulletId, prevFocusId, timers, nextId, pendingImportData,
                 variant, query, linkPopupState, input, identity, store,
                 dataLoadedRef, recentBullets, favoriteBullets>>

\* the oldest effect of the last render runs: the save effect writes the
\* outline of its render once dataLoadedRef is set, the auto-prune effect
\* queues the outline of its render without the item the focus left
RunEffect ==
  LET e == Head(effectQueue) IN
  /\ effectQueue # <<>>
  /\ effectQueue' = Tail(effectQueue)
  /\ IF e.effect = "save"
     THEN /\ store' = IF dataLoadedRef
                      THEN [store EXCEPT !.saved = TRUE, !.value = e.bullets,
                                         !.written = TRUE,
                                         !.first = IF store.written THEN @
                                                   ELSE e.bullets]
                      ELSE store
          /\ UNCHANGED <<updateQueue, prevFocusId>>
     ELSE /\ updateQueue' = updateQueue
                             \o pruneUpdates(e.bullets, prevFocusId, e.currentId)
          /\ prevFocusId' = e.currentId
          /\ UNCHANGED store
  /\ UNCHANGED <<bullets, zoomedBulletId, focusOptions, timers, nextId,
                 pendingImportData, variant, steps, lastOp, before, query,
                 linkPopupState, input, identity, dataLoadedRef, recentBullets,
                 favoriteBullets>>

QueueNext ==
  \/ \E id \in ArgIds, text \in Texts : QueueAddSibling(id, text)
  \/ \E data \in Payloads : QueueHandleImport(data)
  \/ \E targetId \in ArgIds \cup {NoId} : QueueConfirmImport(targetId)
  \/ QueueTimer
  \/ LoadData
  \/ Rerender
  \/ RunEffect

QueueSpec == QueueInit /\ [][QueueNext]_vars

\* the bullets prop SearchModal is rendered with
searchProp ==
  IF variant = "old" THEN flatBullets(bullets) ELSE rootBullets(bullets)

\* the result list SearchModal shows
searchResults == filteredBullets(query, searchProp)

\* ============================================================== properties
\* the item with the given id (the first one in pre-order)
Item(nodes, id) == NodeAt(nodes, findBulletAndParent(id, nodes))

Has(nodes, id) == findBulletAndParent(id, nodes) # <<>>

\* the list an item lives in, and the id of its parent (NoId for a root)
SiblingsOf(nodes, id) == ListAt(nodes, Front(findBulletAndParent(id, nodes)))

IndexOf(nodes, id) == Last(findBulletAndParent(id, nodes))

ParentOf(nodes, id) ==
  LET path == findBulletAndParent(id, nodes) IN
  IF Len(path) > 1 THEN NodeAt(nodes, Front(path)).id ELSE NoId

\* each id occurs once in the pre-order list of the forest
NoDuplicates(nodes) ==
  \A i, j \in 1..Len(AllIds(nodes)) : AllIds(nodes)[i] = AllIds(nodes)[j] => i = j

\* p keeps the children before x, x sits right after p in the list p lives
\* in, the children of x are its previous children followed by its later
\* siblings, and the outline has the same ids as before, each once
OutdentMoved(pre, post, x) ==
  LET p == ParentOf(pre, x)
      sibs == SiblingsOf(pre, x)
      i == IndexOf(pre, x)
  IN /\ Has(post, p) /\ Has(post, x)
     /\ Item(post, p).children = SubSeq(sibs, 1, i - 1)
     /\ SiblingsOf(post, p) = InsertAt(
            [SiblingsOf(pre, p) EXCEPT ![IndexOf(pre, p)] = Item(post, p)],
            IndexOf(pre, p) + 1, Item(post, x))
     /\ Item(post, x).children = Item(pre, x).children \o SubSeq(sibs, i + 1, Len(sibs))
     /\ IdSet(post) = IdSet(pre)
     /\ NoDuplicates(post)

OutdentApplies(pre, x) ==
  /\ Has(pre, x)
  /\ ParentOf(pre, x) # NoId
  /\ ~Item(pre, x).isReadOnly
  /\ ~Item(pre, ParentOf(pre, x)).isReadOnly

\* C1: outdent of x, the i-th child of p (both read-write), leaves p with
\* the children before x, puts x right after p in the list p lives in, and
\* gives x its previous children followed by its later siblings, in order;
\* no item is lost or duplicated.
C1_SiblingsFollow ==
  (lastOp.op = "outdent" /\ OutdentApplies(before, lastOp.id))
    => OutdentMoved(before, bullets, lastOp.id)

\* the siblings-follow rule for the handlers of src/unnamed/part_006 only
C1_SiblingsFollowFull ==
  variant = "full" => C1_SiblingsFollow

\* the children of x begin with the siblings that came after x, and p
\* keeps the children that came before x
OutdentLeads(pre, post, x) ==
  LET sibs == SiblingsOf(pre, x)
      i == IndexOf(pre, x)
      later == SubSeq(sibs, i + 1, Len(sibs))
  IN /\ Has(post, x) /\ Has(post, ParentOf(pre, x))
     /\ Len(Item(post, x).children) >= Len(later)
     /\ SubSeq(Item(post, x).children, 1, Len(later)) = later
     /\ Item(post, ParentOf(pre, x)).children = SubSeq(sibs, 1, i - 1)

\* C2: after outdent of x, the i-th child of p (both read-write), the
\* children of x begin with the siblings that came after x, in order, also
\* when x had children of its own, and p keeps exactly the children that
\* came before x.
C2_ChildrenBeginWithLaterSiblings ==
  (lastOp.op = "outdent" /\ OutdentApplies(before, lastOp.id))
    => OutdentLeads(before, bullets, lastOp.id)

\* the outline with the fold flag of one item cleared
WithUnfolded(nodes, id) ==
  LET path == findBulletAndParent(id, nodes) IN
  IF path = <<>> THEN nodes
  ELSE SetNodeAt(nodes, path, [NodeAt(nodes, path) EXCEPT !.isCollapsed = FALSE])

\* the outdent handler of the running variant
outdentOf(nodes, id) ==
  IF variant = "full" THEN handleOutdent(nodes, id) ELSE handleOutdentApp(nodes, id)

PrevSibling(nodes, id) == SiblingsOf(nodes, id)[IndexOf(nodes, id) - 1]

NotFirst(nodes, id) == Has(nodes, id) /\ IndexOf(nodes, id) > 1

\* outdent of x on the outline indent(x) has produced gives back the
\* outline before the indent, or that outline with s unfolded
Restored(x) ==
  LET s == PrevSibling(before, x).id
      back == outdentOf(bullets, x)
  IN back = before \/ back = WithUnfolded(before, s)

IsTextUpdate == lastOp.op = "update" /\ lastOp.arg.key = "text"

EditOps == {"addSibling", "delete", "indent", "outdent", "move", "merge"}

\* C4: addSibling, delete, indent, outdent, move, merge and a text update
\* called on the id of a read-only item leave the outline unchanged.
C4_ReadOnlyGuard ==
  ((lastOp.op \in EditOps \/ IsTextUpdate)
     /\ Has(before, lastOp.id) /\ Item(before, lastOp.id).isReadOnly)
    => bullets = before

\* the read-only guard for the handlers of src/unnamed/part_006 only
C4_Full == variant = "full" => C4_ReadOnlyGuard

\* an outline without its fold flags
RECURSIVE StripFold(_)
StripFold(nodes) ==
  [i \in 1..Len(nodes) |->
     [id |-> nodes[i].id, text |-> nodes[i].text,
      isReadOnly |-> nodes[i].isReadOnly,
      children |-> StripFold(nodes[i].children)]]

ReadOnlyIds(nodes) == { id \in IdSet(nodes) : Item(nodes, id).isReadOnly }

\* C5: after addSibling, delete, indent, outdent, move, merge, a text
\* update or the auto-prune that follows a focus change, every read-only
\* item still has the children it had, each with the text and the
\* children it had, all the way down.
C5_ReadOnlySubtreeImmutable ==
  (lastOp.op \in EditOps \cup {"focus", "timer"} \/ IsTextUpdate) =>
    \A r \in ReadOnlyIds(before) :
      Has(bullets, r) =>
        StripFold(Item(bullets, r).children) = StripFold(Item(before, r).children)

\* an outline without the items of the given id
RECURSIVE Without(_, _)
Without(nodes, id) ==
  IF nodes = <<>> THEN <<>>
  ELSE IF Head(nodes).id = id THEN Without(Tail(nodes), id)
  ELSE << [Head(nodes) EXCEPT !.children = Without(@, id)] >>
         \o Without(Tail(nodes), id)

\* an existing read-write item with empty text and no children
Prunable(nodes, id) ==
  /\ Has(nodes, id)
  /\ ~Item(nodes, id).isReadOnly
  /\ Item(nodes, id).text = <<>>
  /\ Item(nodes, id).children = <<>>

FocusMoved ==
  lastOp.op # "init" /\ lastOp.focus # NoId /\ lastOp.focus # focusOptions.id

\* C6: when the focus moves away from an item p that exists, is
\* read-write, has empty text and no children, p and nothing else is
\* removed; when it moves away from any other item, or stays where it is,
\* a focus change removes nothing.
C6_AutoPrune ==
  /\ FocusMoved =>
       bullets = IF Prunable(before, lastOp.focus)
                 THEN Without(before, lastOp.focus) ELSE before
  /\ (lastOp.op \in {"focus", "timer"} /\ ~FocusMoved) => bullets = before

C6_Witness ==
  /\ FocusMoved
  /\ Prunable(before, lastOp.focus)
  /\ ~Has(bullets, lastOp.focus)
  /\ bullets # <<>>

\* C7: in every reachable state each id occurs once in the outline, so no
\* item is held by two lists.
C7_UniqueIds == NoDuplicates(bullets)

\* an import of a file whose ids are ids of the outline has been confirmed
C7_Witness ==
  /\ lastOp.op = "import"
  /\ Len(AllIds(bullets)) > Len(AllIds(before))
  /\ IdSet(before) = 1..Len(AllIds(before))

StructuralOps ==
  {"addSibling", "delete", "indent", "outdent", "move", "merge", "foldAll", "update"}

\* the request of the last step has no target or makes no structural sense
InvalidRequest ==
  \/ ~Has(before, lastOp.id)
  \/ lastOp.op = "indent" /\ IndexOf(before, lastOp.id) = 1
  \/ lastOp.op = "outdent" /\ ParentOf(before, lastOp.id) = NoId
  \/ lastOp.op = "move" /\ lastOp.arg = "up" /\ IndexOf(before, lastOp.id) = 1
  \/ lastOp.op = "move" /\ lastOp.arg = "down"
       /\ IndexOf(before, lastOp.id) = Len(SiblingsOf(before, lastOp.id))
  \/ lastOp.op = "merge" /\ IndexOf(before, lastOp.id) = 1
       /\ Item(before, lastOp.id).text # <<>>

\* C8: addSibling, delete, indent, outdent, move, merge, foldAll and an
\* update leave the outline as it was when the target id is not in it, and
\* on an indent of a first item, an outdent of a root item, a move past
\* either end of the list and a merge of a first item with text.
C8_InvalidRequestNoOp ==
  (lastOp.op \in StructuralOps /\ InvalidRequest) => bullets = before

C8_Witness ==
  /\ lastOp.op = "merge"
  /\ Has(before, lastOp.id)
  /\ IndexOf(before, lastOp.id) = 1
  /\ Item(before, lastOp.id).text # <<>>
  /\ ~Item(before, lastOp.id).isReadOnly
  /\ bullets = before

IndentApplies(pre, x) ==
  /\ NotFirst(pre, x)
  /\ ~Item(pre, x).isReadOnly
  /\ ~PrevSibling(pre, x).isReadOnly

\* x has left its list and is the last child of s, after the children s
\* had; s is unfolded; x is the item it was, its children included; every
\* other item is where it was
IndentMoved(pre, post, x) ==
  LET sibs == SiblingsOf(pre, x)
      i == IndexOf(pre, x)
      s == sibs[i - 1]
      path == findBulletAndParent(x, pre)
  IN post = SetListAt(pre, Front(path),
              SubSeq(sibs, 1, i - 2)
                \o << [s EXCEPT !.children = s.children \o << sibs[i] >>,
                                !.isCollapsed = FALSE] >>
                \o SubSeq(sibs, i + 1, Len(sibs)))

MergeApplies(pre, x) ==
  /\ NotFirst(pre, x)
  /\ ~Item(pre, x).isReadOnly
  /\ ~PrevSibling(pre, x).isReadOnly

\* C10: merge of a read-write item x with the read-write previous sibling
\* s gives s the text of s followed by the text of x and the children of s
\* followed by the children of x, removes x, unfolds s exactly when s had
\* no children and x had some, and asks for the focus on s with the caret
\* at the length of the text s had.
C10_MergeIntoPreviousSibling ==
  (lastOp.op = "merge" /\ MergeApplies(before, lastOp.id)) =>
    LET x == Item(before, lastOp.id)
        s == PrevSibling(before, lastOp.id)
    IN /\ ~Has(bullets, x.id)
       /\ Has(bullets, s.id)
       /\ Item(bullets, s.id).text = s.text \o x.text
       /\ Item(bullets, s.id).children = s.children \o x.children
       /\ Item(bullets, s.id).isCollapsed =
            IF s.children = <<>> /\ x.children # <<>> THEN FALSE ELSE s.isCollapsed
       /\ timers = << FocusReq(s.id, Len(s.text)) >>

\* the merge of texts and children, the removal of x and the focus request,
\* without the fold flag of s
C10_MergeButFold ==
  (lastOp.op = "merge" /\ MergeApplies(before, lastOp.id)) =>
    LET x == Item(before, lastOp.id)
        s == PrevSibling(before, lastOp.id)
    IN /\ ~Has(bullets, x.id)
       /\ Has(bullets, s.id)
       /\ Item(bullets, s.id).text = s.text \o x.text
       /\ Item(bullets, s.id).children = s.children \o x.children
       /\ timers = << FocusReq(s.id, Len(s.text)) >>

FirstOfList(pre, x) ==
  /\ Has(pre, x)
  /\ IndexOf(pre, x) = 1
  /\ ~Item(pre, x).isReadOnly

\* C11: merge of a read-write item x that is the first of its list leaves
\* the outline and the focus alone when x has text, with no focus request
\* queued; when x has no text it removes x and asks for the focus on the
\* parent of x with the caret at the end.
C11_MergeFirstItem ==
  (lastOp.op = "merge" /\ FirstOfList(before, lastOp.id)) =>
    IF Item(before, lastOp.id).text # <<>>
    THEN /\ bullets = before
         /\ focusOptions.id = lastOp.focus
         /\ timers = <<>>
    ELSE /\ bullets = Without(before, lastOp.id)
         /\ timers = << FocusReq(ParentOf(before, lastOp.id), PosEnd) >>

\* the first-item rule of merge for the handlers of src/unnamed/part_006 only
C11_Full == variant = "full" => C11_MergeFirstItem

\* the item the focus is to go to after a delete of x: the previous sibling,
\* else the parent, else no item
AfterDelete(pre, x) ==
  IF IndexOf(pre, x) > 1 THEN PrevSibling(pre, x).id ELSE ParentOf(pre, x)

\* C12: delete of a read-write item x removes x from the list it lives in
\* and asks for the focus on the previous sibling of x if it had one,
\* otherwise on its parent, otherwise on no item.
C12_DeleteFocus ==
  (lastOp.op = "delete" /\ Has(before, lastOp.id)
     /\ ~Item(before, lastOp.id).isReadOnly) =>
    /\ bullets = Without(before, lastOp.id)
    /\ timers = << FocusReq(AfterDelete(before, lastOp.id), PosEnd) >>

\* the delete rule for the handlers of src/unnamed/part_006 only
C12_Full == variant = "full" => C12_DeleteFocus

\* the ids of the outline that were not in it before the last step
NewIds == IdSet(bullets) \ IdSet(before)

\* C13: addSibling on a read-write item x with text t adds one item: it has
\* an id that was not in the outline, the text t and no children, and it
\* sits right after x in the list x lives in, never among the children of
\* x; without it the outline is what it was.
C13_AddSiblingFrame ==
  (lastOp.op = "addSibling" /\ Has(before, lastOp.id)
     /\ ~Item(before, lastOp.id).isReadOnly) =>
    /\ Cardinality(NewIds) = 1
    /\ Len(AllIds(bullets)) = Len(AllIds(before)) + 1
    /\ \A n \in NewIds :
         /\ Item(bullets, n).text = lastOp.arg
         /\ Item(bullets, n).children = <<>>
         /\ ParentOf(bullets, n) = ParentOf(before, lastOp.id)
         /\ IndexOf(bullets, n) = IndexOf(before, lastOp.id) + 1
         /\ Without(bullets, n) = before

\* a sibling was added to an unfolded item that has children
C13_Witness ==
  /\ lastOp.op = "addSibling"
  /\ Has(before, lastOp.id)
  /\ ~Item(before, lastOp.id).isReadOnly
  /\ Item(before, lastOp.id).children # <<>>
  /\ ~Item(before, lastOp.id).isCollapsed
  /\ lastOp.arg # <<>>
  /\ Cardinality(NewIds) = 1

\* j lies below x in the outline
IsUnder(nodes, j, x) ==
  LET pj == findBulletAndParent(j, nodes)
      px == findBulletAndParent(x, nodes)
  IN Len(px) < Len(pj) /\ SubSeq(pj, 1, Len(px)) = px

\* a read-only item lies between x and j, both excluded
ReadOnlyBetween(nodes, j, x) ==
  LET pj == findBulletAndParent(j, nodes)
      px == findBulletAndParent(x, nodes)
  IN \E k \in (Len(px) + 1)..(Len(pj) - 1) : NodeAt(nodes, SubSeq(pj, 1, k)).isReadOnly

\* the items foldAll on x is to set: x itself and the read-write
\* descendants of x that have children and are not inside a read-only
\* descendant
FoldTargets(nodes, x) ==
  {x} \cup { j \in IdSet(nodes) :
               /\ IsUnder(nodes, j, x)
               /\ ~Item(nodes, j).isReadOnly
               /\ Item(nodes, j).children # <<>>
               /\ ~ReadOnlyBetween(nodes, j, x) }

\* C14: foldAll on a read-write item x with the flag c sets isCollapsed to
\* c on x and on every read-write descendant of x that has children and is
\* not inside a read-only descendant, and leaves the flag of every other
\* item, and everything but the flags, as it was.
C14_FoldAll ==
  (lastOp.op = "foldAll" /\ Has(before, lastOp.id)
     /\ ~Item(before, lastOp.id).isReadOnly) =>
    /\ StripFold(bullets) = StripFold(before)
    /\ \A j \in IdSet(before) :
         Item(bullets, j).isCollapsed =
           IF j \in FoldTargets(before, lastOp.id) THEN lastOp.arg
           ELSE Item(before, j).isCollapsed

\* the same for an item x that has children and no read-only descendant,
\* for the handlers of src/unnamed/part_006 only
C14_FullPlain ==
  (variant = "full" /\ lastOp.op = "foldAll" /\ Has(before, lastOp.id)
     /\ Item(before, lastOp.id).children # <<>>
     /\ \A j \in IdSet(before) :
          IsUnder(before, j, lastOp.id) => ~Item(before, j).isReadOnly)
    => C14_FoldAll

\* the last step asked for the fold flag c on the item lastOp.id, through
\* the toggle of one item or through foldAll
FoldRequest(c) ==
  \/ lastOp.op = "update" /\ lastOp.arg.key = "isCollapsed" /\ lastOp.arg.value = c
  \/ lastOp.op = "foldAll" /\ lastOp.arg = c

\* C15: a request to fold or unfold a read-only item that has children,
\* made through the toggle of one item (an update of isCollapsed) or
\* through foldAll, gives the item the fold flag that was asked for.
C15_FoldOnReadOnly ==
  \A c \in BOOLEAN :
    (FoldRequest(c) /\ Has(before, lastOp.id)
       /\ Item(before, lastOp.id).isReadOnly
       /\ Item(before, lastOp.id).children # <<>>)
      => Item(bullets, lastOp.id).isCollapsed = c

\* the same for foldAll alone
C15_FoldAllOnReadOnly ==
  \A c \in BOOLEAN :
    (lastOp.op = "foldAll" /\ lastOp.arg = c /\ Has(before, lastOp.id)
       /\ Item(before, lastOp.id).isReadOnly
       /\ Item(before, lastOp.id).children # <<>>)
      => Item(bullets, lastOp.id).isCollapsed = c

\* the items shown in the current view, and their visible sequence
Scope == displayedBullets(bullets, zoomedBulletId)

Visible == visibleBulletIds(bullets, zoomedBulletId)

VisibleSet == { Visible[i] : i \in 1..Len(Visible) }

\* an item of the list nodes that lies below a collapsed item of nodes
HiddenIn(nodes, j) ==
  \E a \in IdSet(nodes) : IsUnder(nodes, j, a) /\ Item(nodes, a).isCollapsed

\* the position of an id in a sequence of ids, 0 if it is not in it
PosIn(seq, id) ==
  IF \E i \in 1..Len(seq) : seq[i] = id
  THEN CHOOSE i \in 1..Len(seq) : seq[i] = id ELSE 0

IsShown(j) == ~HiddenIn(Scope, j)

\* C16: the visible sequence is the pre-order sequence of the items of the
\* scope without the items below a collapsed item: no item below a
\* collapsed item is in it, every other item of the scope is in it once,
\* and a parent comes before its children.
C16_VisibleIds ==
  /\ Visible = SelectSeq(AllIds(Scope), IsShown)
  /\ \A i, j \in 1..Len(Visible) : Visible[i] = Visible[j] => i = j
  /\ \A j \in IdSet(Scope) : j \in VisibleSet <=> ~HiddenIn(Scope, j)
  /\ \A j \in VisibleSet :
       ParentOf(Scope, j) # NoId =>
         /\ ParentOf(Scope, j) \in VisibleSet
         /\ PosIn(Visible, ParentOf(Scope, j)) < PosIn(Visible, j)

\* the view is zoomed into an item, a collapsed item of the scope hides its
\* children, and an item of the scope is shown after it
C16_Witness ==
  /\ zoomedBulletId # NoId
  /\ \E a \in IdSet(Scope) :
       /\ Item(Scope, a).isCollapsed
       /\ Item(Scope, a).children # <<>>
       /\ a \in VisibleSet
       /\ \A k \in IdSet(Item(Scope, a).children) : k \notin VisibleSet
       /\ PosIn(Visible, a) < Len(Visible)

\* the visible sequence the last step started from (a focus step leaves
\* the zoom alone)
VisibleBefore == visibleBulletIds(before, zoomedBulletId)

ScopeBefore == displayedBullets(before, zoomedBulletId)

\* C18: while the view is zoomed into an item Z, focusParent on a direct
\* child of Z leaves the focus where it was, focusParent never puts the
\* focus on an item outside the scope, and focusChild moves the focus only
\* to the first child of an unfolded item of the scope.
C18_FocusStaysInScope ==
  /\ (lastOp.op = "focusParent" /\ zoomedBulletId # NoId) =>
       /\ ParentOf(before, lastOp.id) = zoomedBulletId
            => focusOptions.id = lastOp.focus
       /\ focusOptions.id # lastOp.focus
            => focusOptions.id \in IdSet(ScopeBefore)
  /\ (lastOp.op = "focusChild" /\ focusOptions.id # lastOp.focus) =>
       /\ lastOp.id \in IdSet(ScopeBefore)
            => /\ ~Item(before, lastOp.id).isCollapsed
               /\ Item(before, lastOp.id).children # <<>>
               /\ focusOptions.id = Item(before, lastOp.id).children[1].id

\* the scope rule of focusParent and focusChild for the handlers of
\* src/unnamed/part_006 only
C18_Full == variant = "full" => C18_FocusStaysInScope

\* C19: the scope is the whole outline when no item is zoomed into, the
\* children of the zoomed item when the outline has an item with that id,
\* and the empty list when it has none.
C19_Scope ==
  /\ zoomedBulletId = NoId => Scope = bullets
  /\ \A j \in IdSet(bullets) : zoomedBulletId = j => Scope = Item(bullets, j).children
  /\ (zoomedBulletId # NoId /\ zoomedBulletId \notin IdSet(bullets)) => Scope = <<>>

\* the zoomed item has left the outline
C19_Witness ==
  /\ zoomedBulletId # NoId
  /\ zoomedBulletId \notin IdSet(bullets)
  /\ bullets # <<>>
  /\ Scope = <<>>

ZoomedLeaf ==
  /\ lastOp.op = "zoom"
  /\ Has(before, lastOp.id)
  /\ ~Item(before, lastOp.id).isReadOnly
  /\ Item(before, lastOp.id).children = <<>>

\* C20: a zoom into a read-write item L without children gives L one child,
\* a new item with empty text and no children, and adds nothing else; the
\* view is zoomed into L, so the scope is the list of that one child, and
\* the focus is asked for on it; the focus request puts the focus on the
\* item it names and the item stays in the outline.  A zoom into an item
\* that has children adds no item to the outline.
C20_ZoomIntoLeaf ==
  /\ ZoomedLeaf =>
       /\ Cardinality(NewIds) = 1
       /\ Len(AllIds(bullets)) = Len(AllIds(before)) + 1
       /\ zoomedBulletId = lastOp.id
       /\ Len(Scope) = 1
       /\ \A n \in NewIds :
            /\ Scope = << Item(bullets, n) >>
            /\ Item(bullets, n).text = <<>>
            /\ Item(bullets, n).children = <<>>
            /\ StripFold(Without(bullets, n)) = StripFold(before)
            /\ timers = << FocusReq(n, PosEnd) >>
  /\ lastOp.op = "timer" =>
       /\ focusOptions.id = lastOp.id
       /\ Has(before, lastOp.id) => Has(bullets, lastOp.id)
  /\ (lastOp.op = "zoom" /\ Has(before, lastOp.id)
        /\ Item(before, lastOp.id).children # <<>>) =>
       /\ NewIds = {}
       /\ zoomedBulletId = lastOp.id

\* the focus has arrived on the child the zoom into a leaf created
C20_Witness ==
  /\ lastOp.op = "timer"
  /\ zoomedBulletId # NoId
  /\ Has(bullets, zoomedBulletId)
  /\ Len(Scope) = 1
  /\ Scope[1].id = focusOptions.id
  /\ Scope[1].id = nextId - 1
  /\ Scope[1].text = <<>>

\* C21: in every state in which zoomedBulletId names a read-write item of
\* the outline, the scope (the displayed list) holds at least one item.
C21_ZoomShowsList ==
  (zoomedBulletId # NoId /\ Has(bullets, zoomedBulletId)
     /\ ~Item(bullets, zoomedBulletId).isReadOnly)
    => Scope # <<>>

RECURSIVE StripIds(_)
StripIds(nodes) ==
  [i \in 1..Len(nodes) |->
     [nodes[i] EXCEPT !.id = NoId, !.children = StripIds(@)]]

\* a confirmed import that has a place to put the payload
ImportApplies ==
  /\ lastOp.op = "import"
  /\ \/ lastOp.id = NoId
     \/ /\ Has(before, lastOp.id)
        /\ ~Item(before, lastOp.id).isReadOnly

\* the part of the outline that holds the payload after an import
ImportedForest ==
  IF lastOp.op = "importFile" THEN bullets
  ELSE IF lastOp.id = NoId
  THEN SubSeq(bullets, Len(before) + 1, Len(bullets))
  ELSE SubSeq(Item(bullets, lastOp.id).children,
              Len(Item(before, lastOp.id).children) + 1,
              Len(Item(bullets, lastOp.id).children))

ImportKeepsShapeWithFreshIds ==
  /\ StripIds(ImportedForest) = StripIds(lastOp.arg)
  /\ IdSet(ImportedForest) \cap IdSet(before) = {}
  /\ NoDuplicates(ImportedForest)
  /\ NoDuplicates(bullets)

\* C22: after an import the imported items, nested ones included, carry ids
\* that no item had before the import and that differ from each other, so
\* no id occurs twice in the outline, and the imported forest has the shape,
\* order and texts of the payload.
C22_ImportFreshIds ==
  (lastOp.op = "importFile" \/ ImportApplies) => ImportKeepsShapeWithFreshIds

\* C22 for the confirmed import of src/unnamed/part_006 and src/App.tsx
C22_ConfirmedImport ==
  ImportApplies => ImportKeepsShapeWithFreshIds

\* the outline after a confirmed import without the imported forest
WithoutImported ==
  IF lastOp.id = NoId THEN SubSeq(bullets, 1, Len(before))
  ELSE SetNodeAt(bullets, findBulletAndParent(lastOp.id, bullets),
         [Item(bullets, lastOp.id) EXCEPT
            !.children = SubSeq(@, 1, Len(Item(before, lastOp.id).children))])

RECURSIVE OrGroups(_)
OrGroups(terms) ==
  IF terms = <<>> THEN << <<>> >>
  ELSE LET rest == OrGroups(Tail(terms)) IN
       IF toLowerCase(Head(terms)) = <<"o", "r">>
       THEN << <<>> >> \o rest
       ELSE << << Head(terms) >> \o Head(rest) >> \o Tail(rest)

\* the text holds every term of one group of the query that has terms
QuickFindMatches(text, q) ==
  LET groups == OrGroups(splitTerms(q)) IN
  \/ splitTerms(q) = <<>>
  \/ \E k \in 1..Len(groups) :
       /\ groups[k] # <<>>
       /\ \A t \in 1..Len(groups[k]) :
            includes(toLowerCase(text), toLowerCase(groups[k][t]))

InResults(id) == \E j \in 1..Len(searchResults) : searchResults[j].id = id

\* C24: an item of the searched list is in the results of quick-find if and
\* only if its text contains, without regard to letter case, all terms of at
\* least one group of the query; the empty query matches every item.
C24_QuickFind ==
  \A i \in 1..Len(searchProp) :
    InResults(searchProp[i].id) <=> QuickFindMatches(searchProp[i].text, query)

\* C24 for the queries in which every OR stands between two groups of terms
C24_OrBetweenTerms ==
  (\A k \in 1..Len(OrGroups(splitTerms(query))) :
      OrGroups(splitTerms(query))[k] # <<>>)
    => C24_QuickFind

\* the texts of the ancestors of an item, outermost first
AncestorTexts(nodes, id) ==
  LET path == findBulletAndParent(id, nodes) IN
  [k \in 1..(Len(path) - 1) |-> NodeAt(nodes, SubSeq(path, 1, k)).text]

\* the search of SearchModal accepts the text for the query
Accepts(text, q) ==
  filteredBullets(q, << [id |-> NoId, text |-> text, path |-> <<>>,
                        hasPath |-> FALSE] >>) # <<>>

\* C25: every item of the outline, at every depth and whatever the zoom and
\* the fold flags, whose text the search accepts for the query is in the
\* results, and the result carries the texts of its ancestors in order.
C25_SearchWholeForest ==
  \A id \in IdSet(bullets) :
    Accepts(Item(bullets, id).text, query) =>
      \E j \in 1..Len(searchResults) :
        /\ searchResults[j].id = id
        /\ searchResults[j].hasPath
        /\ searchResults[j].path = AncestorTexts(bullets, id)

\* C25 for src/unnamed/part_005, which hands flatBullets to SearchModal
C25_Flat ==
  variant = "old" => C25_SearchWholeForest

\* the ids of the link suggestions, in the order of the popup
SuggestedIds ==
  [i \in 1..Len(linkPopupState.suggestions) |-> linkPopupState.suggestions[i].id]

Suggested(id) == \E i \in 1..Len(SuggestedIds) : SuggestedIds[i] = id

ContainsQuery(id) ==
  includes(toLowerCase(Item(bullets, id).text), toLowerCase(linkPopupState.query))

StartsWithQuery(id) ==
  startsWith(toLowerCase(Item(bullets, id).text), toLowerCase(linkPopupState.query))

\* C26: the link suggestions for a query are, among the items other than the
\* edited one, exactly the items whose text contains the query without
\* regard to letter case; every item whose text starts with the query comes
\* before every item that only contains it, and items of equal rank come in
\* the pre-order of the outline.
C26_LinkSuggestions ==
  linkPopupState.isOpen =>
    /\ \A id \in IdSet(bullets) \ {linkPopupState.targetId} :
         Suggested(id) <=> ContainsQuery(id)
    /\ \A i, j \in 1..Len(SuggestedIds) :
         i < j =>
           /\ StartsWithQuery(SuggestedIds[j]) => StartsWithQuery(SuggestedIds[i])
           /\ (StartsWithQuery(SuggestedIds[i]) <=> StartsWithQuery(SuggestedIds[j]))
                => PosIn(AllIds(bullets), SuggestedIds[i])
                     < PosIn(AllIds(bullets), SuggestedIds[j])

\* C26 for src/unnamed/part_006 and src/unnamed/part_005
C26_Scored ==
  variant # "app" => C26_LinkSuggestions

\* C27: the item being edited is not among its own link suggestions,
\* whatever the query, the empty query included.
C27_NoSelfSuggestion ==
  linkPopupState.isOpen => ~Suggested(linkPopupState.targetId)

\* C27 for the queries that are not empty in src/unnamed/part_006 and
\* src/unnamed/part_005
C27_ScoredNonEmpty ==
  (variant # "app" /\ linkPopupState.query # <<>>) => C27_NoSelfSuggestion

\* the offset of the last # before the caret, counted from 1
LastHash(value, cursor) ==
  CHOOSE p \in 1..cursor :
    /\ value[p] = "#"
    /\ \A k \in (p + 1)..cursor : value[k] # "#"

\* a tag was chosen while the text before the caret ended in a tag prefix,
\* and the caret has been placed
TagInserted ==
  /\ lastOp.op = "caret"
  /\ tagMatchIndex(substring(lastOp.arg.value, 0, lastOp.arg.cursor)) # -1

\* C28: after a tag is chosen, the text of the item is the text before the #
\* that opened the tag (the whitespace character in front of the # included),
\* then the tag, with or without the blank the handler puts behind it, then
\* the text that stood behind the caret, and the caret stands right behind
\* what was inserted.
C28_TagSelection ==
  TagInserted =>
    LET value == lastOp.arg.value
        cursor == lastOp.arg.cursor
        pre == SubSeq(value, 1, LastHash(value, cursor) - 1)
        post == SubSeq(value, cursor + 1, Len(value))
    IN \E inserted \in { lastOp.arg.arg, lastOp.arg.arg \o <<" ">> } :
         /\ input.value = pre \o inserted \o post
         /\ Item(bullets, lastOp.id).text = input.value
         /\ input.selectionStart = Len(pre) + Len(inserted)

\* C28 when the # is the first character or follows a space
C28_AfterSpace ==
  (TagInserted
     /\ LET p == LastHash(lastOp.arg.value, lastOp.arg.cursor) IN
        p = 1 \/ lastOp.arg.value[p - 1] = " ")
    => C28_TagSelection

\* C30: after Enter with the caret at offset k in the read-write item x with
\* text t, x is in the outline with the text t[0..k), and the item right
\* after x among its siblings is the one new item, with the text t[k..) and
\* no children; apart from the new item and the text of x the outline is as
\* it was.
C30_SplitAtCaret ==
  (lastOp.op = "enter" /\ ~Item(before, lastOp.id).isReadOnly) =>
    LET x == lastOp.id
        t == lastOp.arg.value
        k == lastOp.arg.cursor
    IN /\ Has(bullets, x)
       /\ Item(bullets, x).text = SubSeq(t, 1, k)
       /\ Cardinality(NewIds) = 1
       /\ \A n \in NewIds :
            /\ IndexOf(bullets, x) < Len(SiblingsOf(bullets, x))
            /\ SiblingsOf(bullets, x)[IndexOf(bullets, x) + 1].id = n
            /\ Item(bullets, n).text = SubSeq(t, k + 1, Len(t))
            /\ Item(bullets, n).children = <<>>
            /\ Without(bullets, n)
                 = mapBullets(before, x, [key |-> "text", value |-> SubSeq(t, 1, k)])

\* C30 for src/unnamed/part_006 and src/App.tsx
C30_Updaters ==
  variant # "old" => C30_SplitAtCaret

\* the ids of the items on the path from a root to the item, both included
PathIds(nodes, id) ==
  LET path == findBulletAndParent(id, nodes) IN
  { NodeAt(nodes, SubSeq(path, 1, k)).id : k \in 1..Len(path) }

\* C29: an updater that changes one item creates new objects only for items
\* on the path from a root to that item, every other item is the object it
\* was, and an updater whose result equals the outline it was given returns
\* that outline object itself.
C29_StructuralSharing ==
  lastOp.op \in {"update", "indent"} =>
    /\ identity.created \subseteq
         (PathIds(before, lastOp.id) \cup PathIds(bullets, lastOp.id))
    /\ bullets = before => identity.same

\* C29, the part on the items off the path, for handleUpdate
C29_UpdatePath ==
  lastOp.op = "update" =>
    identity.created \subseteq PathIds(before, lastOp.id)

\* the text of every id of an outline
TextOf(nodes) == [id \in IdSet(nodes) |-> Item(nodes, id).text]

FrameOps == {"indent", "outdent", "move", "foldAll"}

IsFoldToggle == lastOp.op = "update" /\ lastOp.arg.key = "isCollapsed"

\* C34: indent, outdent, move, foldAll and a fold toggle keep the set of ids
\* and the text of each id; foldAll and the toggle also keep every
\* parent-child relation and every sibling order.
C34_FrameOfRestructuring ==
  /\ (lastOp.op \in FrameOps \/ IsFoldToggle) =>
       /\ IdSet(bullets) = IdSet(before)
       /\ TextOf(bullets) = TextOf(before)
       /\ NoDuplicates(bullets)
  /\ (lastOp.op = "foldAll" \/ IsFoldToggle) =>
       StripFold(bullets) = StripFold(before)

\* an outdent that moved an item with text to another list
C34_Witness ==
  /\ lastOp.op = "outdent"
  /\ bullets # before
  /\ \E id \in IdSet(bullets) : Item(bullets, id).text # <<>>
  /\ C34_FrameOfRestructuring

\* the ids below item id of an outline
DescendantsOf(nodes, id) ==
  IF Has(nodes, id) THEN IdSet(Item(nodes, id).children) ELSE {}

\* C35: merge(x) removes no item other than x; every descendant of x is still
\* in the outline after the merge.
C35_MergeKeepsDescendants ==
  lastOp.op = "merge" =>
    /\ IdSet(before) \ {lastOp.id} \subseteq IdSet(bullets)
    /\ DescendantsOf(before, lastOp.id) \subseteq IdSet(bullets)

\* the part of the merge rule for an item that has a previous sibling
C35_WithPreviousSibling ==
  (lastOp.op = "merge" /\ Has(before, lastOp.id)
     /\ IndexOf(before, lastOp.id) > 1) =>
    IdSet(before) \ {lastOp.id} \subseteq IdSet(bullets)

\* C32: in every state in which no deferred focus callback is waiting, the
\* focused id is none or the id of an item of the outline.
C32_FocusExists ==
  timers = <<>> => (focusOptions.id = NoId \/ Has(bullets, focusOptions.id))

\* C33: in every state in which no deferred focus callback is waiting, a
\* focused item of the outline is one of the visible ids of the zoom scope.
C33_FocusVisible ==
  (timers = <<>> /\ focusOptions.id # NoId /\ Has(bullets, focusOptions.id))
    => focusOptions.id \in VisibleSet

Entries(list) == { list[i] : i \in 1..Len(list) }

\* C38: the recent list and the favorites list hold only ids of items of the
\* outline, each id at most once, and the recent list holds at most 12
\* entries.
C38_ListsNameItems ==
  /\ Entries(recentBullets) \subseteq IdSet(bullets)
  /\ Entries(favoriteBullets) \subseteq IdSet(bullets)
  /\ Cardinality(Entries(recentBullets)) = Len(recentBullets)
  /\ Cardinality(Entries(favoriteBullets)) = Len(favoriteBullets)
  /\ Len(recentBullets) <= RECENT_LIMIT

\* the lists never name an item twice and the recent list never grows
\* beyond its limit
C38_NoDuplicateEntries ==
  /\ Cardinality(Entries(recentBullets)) = Len(recentBullets)
  /\ Cardinality(Entries(favoriteBullets)) = Len(favoriteBullets)
  /\ Len(recentBullets) <= RECENT_LIMIT

\* a queued update carried out as its operation on the outline it meets
sequentialUpdate(prev, update) ==
  IF update.kind = "focus" THEN prev
  ELSE IF update.op = "addSibling" THEN handleAddSibling(prev, update.id, update.arg)
  ELSE IF update.op = "import" THEN handleConfirmImport(prev, update.id, update.arg)
  ELSE IF update.op = "prune" THEN autoPrune(prev, update.id, NoId)
  ELSE update.value

\* the queued updates carried out one after the other
RECURSIVE sequentialQueue(_, _)
sequentialQueue(prev, queue) ==
  IF queue = <<>> THEN prev
  ELSE sequentialQueue(sequentialUpdate(prev, Head(queue)), Tail(queue))

\* C31: the outline of a render is the outline of the render before it with
\* the queued writes applied one after the other, each to the outline the
\* writes before it left.
C31_QueuedWritesCompose ==
  lastOp.op = "render" => bullets = sequentialQueue(before, lastOp.arg)

\* the rule for queues that hold updater functions and the loaded outline
\* only
C31_UpdatersCompose ==
  (lastOp.op = "render"
     /\ \A i \in 1..Len(lastOp.arg) :
          lastOp.arg[i].kind = "set" => lastOp.arg[i].op = "load")
    => bullets = sequentialQueue(before, lastOp.arg)

\* C36: the store is written only after loadData has finished, and the
\* first write holds every item of the outline the store held.
C36_SaveAfterLoad ==
  store.written =>
    /\ dataLoadedRef
    /\ IdSet(store.initial) \subseteq IdSet(store.first)

\* the store is written only after loadData has finished
C36_NoWriteWhileLoading == store.written => dataLoadedRef

====
